---------------------------- MODULE Spec2Model ----------------------------
(***************************************************************************)
(* Verification model of the image preview core of AVplatform:             *)
(*   - ImageCache (src/src/image_preview_optimized.py), single caller and  *)
(*     concurrent callers;                                                 *)
(*   - organize_images_by_timestamp (src/src/image_preview.py) and         *)
(*     organize_images_fast (src/src/image_preview_optimized.py).          *)
(***************************************************************************)
EXTENDS Integers, Sequences, FiniteSets, TLC

(***************************************************************************)
(* Bounds of the model.                                                    *)
(***************************************************************************)
\* largest capacity (max_size) an ImageCache is constructed with
MaxCapacity == 2
\* image paths handed to the cache are 1..NumPaths
NumPaths == 2
\* time.time() readings are 0..MaxClock
MaxClock == 2
\* threads calling the shared image_cache concurrently
NumThreads == 2
\* calls the threads begin, all together
MaxCalls == 3
\* longest path list handed to organize
MaxInput == 2
\* longest run of digits after a unix tag in the filenames resolved
MaxDigits == 17
\* most records handed to the grid view
MaxItems == 13
\* most records handed to the timeline view
MaxShown == 3
\* most rows of the user_sessions table
MaxSessions == 2
\* most steps of the clock of data.db's callers
MaxAdvances == 3
\* most rows of the users table
MaxUsers == 3
\* the minutes the clock of the online table runs
MaxMinutes == 6

(***************************************************************************)
(* State.                                                                  *)
(***************************************************************************)
VARIABLES
    max_size,      \* ImageCache.max_size
    cache,         \* ImageCache.cache: function cache_key -> image buffer
    access_time,   \* ImageCache.access_time: the dict, as the sequence of its
                   \* items <<cache_key, time>> in insertion order
    decodable,     \* the paths Image.open / thumbnail succeed on
    now,           \* the latest reading of time.time()
    last,          \* the latest completed call: what it asked, did and returned
    recency,       \* observer: the stored keys, least recently accessed first
    hist,          \* observer: the paths asked for so far (fill scenario)
    thr            \* concurrent callers: each thread's place in its call, its
                   \* locals (cache_key, image_path, current_time, oldest_key),
                   \* what its latest call returned and how many calls it began

cacheVars == <<max_size, cache, access_time, decodable, now, last, recency, hist>>

VARIABLES
    fs,            \* the filesystem: path -> the file there, or Missing
    image_files,   \* the argument of organize: a sequence of paths
    organized      \* what the organize call returned and reported, or NoneRec

organizeVars == <<fs, image_files, organized>>

VARIABLES
    run            \* an organize call taken statement by statement: the
                   \* variant, the statement it is at, the loop index, its
                   \* locals and image_data so far

VARIABLES
    session,       \* what the process keeps between organize calls: the
                   \* lru_cache of the resolver, the st.cache_data entries,
                   \* and (observer) the first result of each variant
    grid,          \* a pass of the grid view: its arguments, the widget
                   \* choices and what it laid out
    resolved       \* a call of the resolver: the filename and the result

extraVars == <<run, session, grid, resolved>>

VARIABLES
    timeline,      \* the timeline view: the records shown, st.session_state's
                   \* timeline index and what the last pass did
    interface,     \* the preview interface: the organized collection, the
                   \* statistics and st.session_state's detail keys
    auth,          \* data.db: the users and user_sessions tables, and the clock
    online         \* OnlineUserManager's table of online users, and the clock

appVars == <<timeline, interface, auth, online>>

vars == <<cacheVars, thr, organizeVars, extraVars, appVars>>

None == "None"

\* no stepwise call is under way
\* the views, the accounts and the online table are not in use
AppIdle ==
    /\ timeline = [none |-> TRUE]
    /\ interface = [none |-> TRUE]
    /\ auth = [none |-> TRUE]
    /\ online = [none |-> TRUE]

ExtraIdle ==
    /\ AppIdle
    /\ run = [none |-> TRUE]
    /\ session = [none |-> TRUE]
    /\ grid = [none |-> TRUE]
    /\ resolved = [none |-> TRUE]

\* no organize call is under way: the organizer's variables at rest
OrganizeIdle ==
    /\ ExtraIdle
    /\ fs = << >>
    /\ image_files = << >>
    /\ organized = [none |-> TRUE]

NoCall == [key |-> None, outcome |-> "none", ret |-> None, evicted |-> None]

Paths == 1 .. NumPaths

Threads == 1 .. NumThreads

IdleThread ==
    [pc |-> "idle", cache_key |-> None, image_path |-> None, current_time |-> 0,
     oldest_key |-> None, decoded |-> FALSE, ret |-> None, result |-> "none",
     calls |-> 0]

\* cache_key = f"thumb_{image_path}" / f"preview_{image_path}"
thumb_key(image_path) == <<"thumb", image_path>>

preview_key(image_path) == <<"preview", image_path>>

\* the buffer a decode-and-resize of image_path yields under the key's kind
Buffer(cache_key) == [kind |-> cache_key[1], of |-> cache_key[2]]

(***************************************************************************)
(* Helpers on the access_time dict (a sequence of items in insertion order)*)
(***************************************************************************)
KeySet(at) == {at[i][1] : i \in 1 .. Len(at)}

\* access_time[key] = t: an existing key keeps its place, a new key goes last
SetTime(at, k, t) ==
    IF k \in KeySet(at)
    THEN [i \in 1 .. Len(at) |-> IF at[i][1] = k THEN <<k, t>> ELSE at[i]]
    ELSE Append(at, <<k, t>>)

RECURSIVE DelKey(_, _)
\* del access_time[key]
DelKey(at, k) ==
    IF at = <<>> THEN <<>>
    ELSE IF at[1][1] = k THEN Tail(at)
    ELSE <<at[1]>> \o DelKey(Tail(at), k)

\* del cache[key]
DelCache(c, k) == [x \in (DOMAIN c) \ {k} |-> c[x]]

\* cache[key] = buffer
SetCache(c, k, b) == [x \in (DOMAIN c) \cup {k} |-> IF x = k THEN b ELSE c[x]]

\* a faulty variant of OldestKey: the item with the greatest time
NewestKey(at) ==
    at[CHOOSE i \in 1 .. Len(at) :
          \A j \in 1 .. Len(at) :
              at[i][2] > at[j][2] \/ (at[i][2] = at[j][2] /\ i >= j)][1]

\* min(self.access_time.keys(), key=lambda k: self.access_time[k]):
\* the first item, in iteration order, among those with the least time
OldestKey(at) ==
    at[CHOOSE i \in 1 .. Len(at) :
          \A j \in 1 .. Len(at) :
              at[i][2] < at[j][2] \/ (at[i][2] = at[j][2] /\ i <= j)][1]

\* a faulty variant of evict_oldest: evicts only when the size exceeds max_size
evict_oldest_gt(c, at, m) ==
    IF Cardinality(DOMAIN c) > m
    THEN [cache |-> DelCache(c, OldestKey(at)),
          access_time |-> DelKey(at, OldestKey(at)),
          evicted |-> OldestKey(at)]
    ELSE [cache |-> c, access_time |-> at, evicted |-> None]

\* ImageCache._evict_oldest
evict_oldest(c, at, m) ==
    IF Cardinality(DOMAIN c) >= m
    THEN [cache |-> DelCache(c, OldestKey(at)),
          access_time |-> DelKey(at, OldestKey(at)),
          evicted |-> OldestKey(at)]
    ELSE [cache |-> c, access_time |-> at, evicted |-> None]

(***************************************************************************)
(* ImageCache.get_thumbnail / get_preview, one caller.                     *)
(***************************************************************************)
\* the hit branch: access_time[cache_key] = current_time; return the buffer
on_hit(c, at, cache_key, current_time) ==
    [cache |-> c,
     access_time |-> SetTime(at, cache_key, current_time),
     outcome |-> "hit", ret |-> c[cache_key], evicted |-> None]

\* a faulty variant of on_miss: _evict_oldest runs before the image is opened
on_miss_evict_first(c, at, m, cache_key, current_time, ok) ==
    LET e == evict_oldest(c, at, m) IN
    IF ok
    THEN [cache |-> SetCache(e.cache, cache_key, Buffer(cache_key)),
          access_time |-> SetTime(e.access_time, cache_key, current_time),
          outcome |-> "decoded", ret |-> Buffer(cache_key), evicted |-> e.evicted]
    ELSE [cache |-> e.cache, access_time |-> e.access_time,
          outcome |-> "failed", ret |-> None, evicted |-> e.evicted]

\* the miss branch: the try block; ok says whether Image.open and thumbnail
\* succeed. On success: _evict_oldest, insert, stamp, return the stored buffer.
\* On an exception: st.error and return None.
on_miss(c, at, m, cache_key, current_time, ok) ==
    IF ok
    THEN LET e == evict_oldest(c, at, m) IN
         [cache |-> SetCache(e.cache, cache_key, Buffer(cache_key)),
          access_time |-> SetTime(e.access_time, cache_key, current_time),
          outcome |-> "decoded", ret |-> Buffer(cache_key), evicted |-> e.evicted]
    ELSE [cache |-> c, access_time |-> at,
          outcome |-> "failed", ret |-> None, evicted |-> None]

\* the body shared by get_thumbnail and get_preview
get_image(c, at, m, cache_key, current_time, ok) ==
    IF cache_key \in DOMAIN c
    THEN on_hit(c, at, cache_key, current_time)
    ELSE on_miss(c, at, m, cache_key, current_time, ok)

\* the readings time.time() can give after now: the clock does not run
\* backwards, and two readings can be equal
ClockReadings == {t \in {now, now + 1} : t <= MaxClock}

\* the observer's list after an access to k that evicted e
Accessed(r, k, e) ==
    SelectSeq(r, LAMBDA x : x # k /\ x # e) \o <<k>>

Call(cache_key, image_path) ==
    \E current_time \in ClockReadings :
        \E r \in {get_image(cache, access_time, max_size, cache_key,
                              current_time, image_path \in decodable)} :
        /\ now' = current_time
        /\ cache' = r.cache
        /\ access_time' = r.access_time
        /\ last' = [key |-> cache_key, outcome |-> r.outcome,
                    ret |-> r.ret, evicted |-> r.evicted]
        /\ recency' = IF r.outcome = "failed" THEN recency
                      ELSE Accessed(recency, cache_key, r.evicted)
        /\ UNCHANGED <<max_size, decodable>>

get_thumbnail(image_path) == Call(thumb_key(image_path), image_path)

get_preview(image_path) == Call(preview_key(image_path), image_path)

\* ImageCache.__init__, for every capacity and every set of decodable files
Init ==
    /\ max_size \in 1 .. MaxCapacity
    /\ cache = << >>
    /\ access_time = << >>
    /\ decodable \in SUBSET Paths
    /\ now = 0
    /\ last = NoCall
    /\ recency = << >>
    /\ hist = << >>
    /\ thr = [t \in Threads |-> IdleThread]
    /\ OrganizeIdle

GetThumbnail ==
    \E p \in Paths : get_thumbnail(p) /\ UNCHANGED <<hist, thr, organizeVars, appVars, extraVars>>

GetPreview ==
    \E p \in Paths : get_preview(p) /\ UNCHANGED <<hist, thr, organizeVars, appVars, extraVars>>

Next == GetThumbnail \/ GetPreview

Spec == Init /\ [][Next]_vars

(***************************************************************************)
(* The fill scenario: get_thumbnail only, on decodable paths, from the     *)
(* empty cache, with the observer recording the paths asked for.           *)
(***************************************************************************)
FillPaths == 1 .. (MaxCapacity + 1)

InitFill ==
    /\ max_size \in 1 .. MaxCapacity
    /\ cache = << >>
    /\ access_time = << >>
    /\ decodable \in SUBSET FillPaths
    /\ now = 0
    /\ last = NoCall
    /\ recency = << >>
    /\ hist = << >>
    /\ thr = [t \in Threads |-> IdleThread]
    /\ OrganizeIdle

FillThumbnail ==
    \E p \in decodable :
        /\ Len(hist) < max_size + 2
        /\ get_thumbnail(p)
        /\ hist' = Append(hist, p)
        /\ UNCHANGED <<thr, organizeVars, appVars, extraVars>>

NextFill == FillThumbnail

SpecFill == InitFill /\ [][NextFill]_vars

(***************************************************************************)
(* Claims on the cache with one caller.                                    *)
(***************************************************************************)
\* C1: whenever a call removes an entry, the entry removed is the stored
\* entry whose latest access (insert or hit) is the oldest; an entry that was
\* hit after another was inserted is not evicted before that other entry.
C1_EvictsLeastRecentlyAccessed ==
    [][\A k \in DOMAIN cache : k \notin DOMAIN cache' => k = Head(recency)]_vars

\* C2: in every reachable state the stored entries, thumbnails and previews
\* together, number at most max_size.
C2_AtMostMaxSize == Cardinality(DOMAIN cache) <= max_size

\* a full cache holding both kinds, whose latest call evicted to insert
C2_Witness ==
    /\ Cardinality(DOMAIN cache) = max_size
    /\ last.outcome = "decoded" /\ last.evicted # None
    /\ \E k1, k2 \in DOMAIN cache : k1[1] = "thumb" /\ k2[1] = "preview"

Distinct(s) == \A i, j \in 1 .. Len(s) : i # j => s[i] # s[j]

\* C3: from the empty cache, after get_thumbnail on max_size+1 distinct
\* decodable paths the first path's entry is gone and the others are stored,
\* and a following get_thumbnail on the first path decodes afresh.
C3_FirstPathEvicted ==
    /\ (Len(hist) = max_size + 1 /\ Distinct(hist)) =>
           /\ thumb_key(hist[1]) \notin DOMAIN cache
           /\ \A i \in 2 .. max_size + 1 :
                  /\ thumb_key(hist[i]) \in DOMAIN cache
                  /\ cache[thumb_key(hist[i])] = Buffer(thumb_key(hist[i]))
    /\ (/\ Len(hist) = max_size + 2
        /\ Distinct(SubSeq(hist, 1, max_size + 1))
        /\ hist[max_size + 2] = hist[1]) =>
           /\ last.key = thumb_key(hist[1])
           /\ last.outcome = "decoded"

\* the scenario was run to its end on the largest capacity
C3_Witness ==
    /\ max_size = MaxCapacity
    /\ Len(hist) = max_size + 2
    /\ Distinct(SubSeq(hist, 1, max_size + 1))
    /\ hist[max_size + 2] = hist[1]

Keys == {thumb_key(p) : p \in Paths} \cup {preview_key(p) : p \in Paths}

\* thread t's record with its call ended: the value returned, or the error
\* raised to the caller
Ended(t, value, how) ==
    [thr EXCEPT ![t] = [IdleThread EXCEPT !.ret = value, !.result = how,
                                          !.calls = thr[t].calls]]

RECURSIVE SumCalls(_)
SumCalls(T) ==
    IF T = {} THEN 0
    ELSE LET t == CHOOSE x \in T : TRUE IN thr[t].calls + SumCalls(T \ {t})

CallsBegun == SumCalls(Threads)

\* cache_key = ...; current_time = time.time()
Begin(t) ==
    \E k \in Keys, current_time \in ClockReadings :
        /\ thr[t].pc = "idle"
        /\ CallsBegun < MaxCalls
        /\ now' = current_time
        /\ thr' = [thr EXCEPT ![t] =
                      [pc |-> "check", cache_key |-> k, image_path |-> k[2],
                       current_time |-> current_time, oldest_key |-> None,
                       decoded |-> FALSE, ret |-> None, result |-> "none",
                       calls |-> thr[t].calls + 1]]
        /\ UNCHANGED <<max_size, cache, access_time, decodable>>

\* if cache_key in self.cache:
CheckHit(t) ==
    /\ thr[t].pc = "check"
    /\ thr' = [thr EXCEPT ![t].pc =
                  IF thr[t].cache_key \in DOMAIN cache THEN "touch" ELSE "open"]
    /\ UNCHANGED <<max_size, cache, access_time, decodable, now>>

\* self.access_time[cache_key] = current_time
TouchHit(t) ==
    /\ thr[t].pc = "touch"
    /\ access_time' = SetTime(access_time, thr[t].cache_key, thr[t].current_time)
    /\ thr' = [thr EXCEPT ![t].pc = "return_hit"]
    /\ UNCHANGED <<max_size, cache, decodable, now>>

\* return self.cache[cache_key], outside the try block: a KeyError reaches
\* the caller
ReturnHit(t) ==
    /\ thr[t].pc = "return_hit"
    /\ thr' = IF thr[t].cache_key \in DOMAIN cache
              THEN Ended(t, cache[thr[t].cache_key], "buffer")
              ELSE Ended(t, None, "raised")
    /\ UNCHANGED <<max_size, cache, access_time, decodable, now>>

\* with Image.open(image_path) as img: img.thumbnail(...); img.convert(...)
OpenImage(t) ==
    /\ thr[t].pc = "open"
    /\ thr' = IF thr[t].image_path \in decodable
              THEN [thr EXCEPT ![t].pc = "evict_test", ![t].decoded = TRUE]
              ELSE Ended(t, None, "undecodable")
    /\ UNCHANGED <<max_size, cache, access_time, decodable, now>>

\* _evict_oldest: if len(self.cache) >= self.max_size:
EvictTest(t) ==
    /\ thr[t].pc = "evict_test"
    /\ thr' = [thr EXCEPT ![t].pc =
                  IF Cardinality(DOMAIN cache) >= max_size
                  THEN "evict_min" ELSE "insert"]
    /\ UNCHANGED <<max_size, cache, access_time, decodable, now>>

\* _evict_oldest: oldest_key = min(self.access_time.keys(), ...); min of an
\* empty dict raises ValueError, which the except clause turns into None
EvictMin(t) ==
    /\ thr[t].pc = "evict_min"
    /\ thr' = IF access_time = << >>
              THEN Ended(t, None, "error")
              ELSE [thr EXCEPT ![t].pc = "del_cache",
                               ![t].oldest_key = OldestKey(access_time)]
    /\ UNCHANGED <<max_size, cache, access_time, decodable, now>>

\* _evict_oldest: del self.cache[oldest_key]
EvictDelCache(t) ==
    /\ thr[t].pc = "del_cache"
    /\ IF thr[t].oldest_key \in DOMAIN cache
       THEN /\ cache' = DelCache(cache, thr[t].oldest_key)
            /\ thr' = [thr EXCEPT ![t].pc = "del_access"]
       ELSE /\ cache' = cache
            /\ thr' = Ended(t, None, "error")
    /\ UNCHANGED <<max_size, access_time, decodable, now>>

\* _evict_oldest: del self.access_time[oldest_key]
EvictDelAccess(t) ==
    /\ thr[t].pc = "del_access"
    /\ IF thr[t].oldest_key \in KeySet(access_time)
       THEN /\ access_time' = DelKey(access_time, thr[t].oldest_key)
            /\ thr' = [thr EXCEPT ![t].pc = "insert"]
       ELSE /\ access_time' = access_time
            /\ thr' = Ended(t, None, "error")
    /\ UNCHANGED <<max_size, cache, decodable, now>>

\* self.cache[cache_key] = img.copy()
InsertBuffer(t) ==
    /\ thr[t].pc = "insert"
    /\ cache' = SetCache(cache, thr[t].cache_key, Buffer(thr[t].cache_key))
    /\ thr' = [thr EXCEPT ![t].pc = "stamp"]
    /\ UNCHANGED <<max_size, access_time, decodable, now>>

\* self.access_time[cache_key] = current_time
StampInsert(t) ==
    /\ thr[t].pc = "stamp"
    /\ access_time' = SetTime(access_time, thr[t].cache_key, thr[t].current_time)
    /\ thr' = [thr EXCEPT ![t].pc = "return_miss"]
    /\ UNCHANGED <<max_size, cache, decodable, now>>

\* return self.cache[cache_key], inside the try block: a KeyError is caught
\* and None is returned
ReturnMiss(t) ==
    /\ thr[t].pc = "return_miss"
    /\ thr' = IF thr[t].cache_key \in DOMAIN cache
              THEN Ended(t, cache[thr[t].cache_key], "buffer")
              ELSE Ended(t, None, "error")
    /\ UNCHANGED <<max_size, cache, access_time, decodable, now>>

NextConc ==
    \/ \E t \in Threads : Begin(t) /\ UNCHANGED <<last, recency, hist, organizeVars, appVars, extraVars>>
    \/ \E t \in Threads : CheckHit(t) /\ UNCHANGED <<last, recency, hist, organizeVars, appVars, extraVars>>
    \/ \E t \in Threads : TouchHit(t) /\ UNCHANGED <<last, recency, hist, organizeVars, appVars, extraVars>>
    \/ \E t \in Threads : ReturnHit(t) /\ UNCHANGED <<last, recency, hist, organizeVars, appVars, extraVars>>
    \/ \E t \in Threads : OpenImage(t) /\ UNCHANGED <<last, recency, hist, organizeVars, appVars, extraVars>>
    \/ \E t \in Threads : EvictTest(t) /\ UNCHANGED <<last, recency, hist, organizeVars, appVars, extraVars>>
    \/ \E t \in Threads : EvictMin(t) /\ UNCHANGED <<last, recency, hist, organizeVars, appVars, extraVars>>
    \/ \E t \in Threads : EvictDelCache(t) /\ UNCHANGED <<last, recency, hist, organizeVars, appVars, extraVars>>
    \/ \E t \in Threads : EvictDelAccess(t) /\ UNCHANGED <<last, recency, hist, organizeVars, appVars, extraVars>>
    \/ \E t \in Threads : InsertBuffer(t) /\ UNCHANGED <<last, recency, hist, organizeVars, appVars, extraVars>>
    \/ \E t \in Threads : StampInsert(t) /\ UNCHANGED <<last, recency, hist, organizeVars, appVars, extraVars>>
    \/ \E t \in Threads : ReturnMiss(t) /\ UNCHANGED <<last, recency, hist, organizeVars, appVars, extraVars>>

SpecConc == Init /\ [][NextConc]_vars

(***************************************************************************)
(* Claims on the cache with concurrent callers.                            *)
(***************************************************************************)
\* C5: of the callers running get_thumbnail (or get_preview) for one key at
\* the same time, at most one performs the decode-and-resize.
C5_OneDecodePerKey ==
    \A t1, t2 \in Threads :
        (/\ t1 # t2
         /\ thr[t1].pc # "idle" /\ thr[t2].pc # "idle"
         /\ thr[t1].cache_key = thr[t2].cache_key)
        => ~(thr[t1].decoded /\ thr[t2].decoded)

\* C6: under concurrent calls the store never holds more than max_size
\* entries, the entry map and the access-time map have the same keys whenever
\* no call is in progress, and no call for a decodable image fails.
C6_AtomicBookkeeping ==
    /\ Cardinality(DOMAIN cache) <= max_size
    /\ (\A t \in Threads : thr[t].pc = "idle") => DOMAIN cache = KeySet(access_time)
    /\ \A t \in Threads : thr[t].result \notin {"error", "raised"}

(***************************************************************************)
(* extract_timestamp_from_filename: the cascade of regular expressions.    *)
(* A filename is a string; a datetime is the tuple                         *)
(* <<year, month, day, hour, minute, second, microsecond>>, which Python   *)
(* compares field by field.                                                *)
(***************************************************************************)
Char(str, i) == SubSeq(str, i, i)

IsDigit(c) == c \in {"0", "1", "2", "3", "4", "5", "6", "7", "8", "9"}

IsSep(c) == c \in {"_", "-"}

\* int() of one digit
DigitVal(c) == CHOOSE d \in 0 .. 9 : Char("0123456789", d + 1) = c

RECURSIVE IntOf(_)
\* int() of a short run of digits
IntOf(digits) ==
    IF Len(digits) = 0 THEN 0
    ELSE 10 * IntOf(SubSeq(digits, 1, Len(digits) - 1))
         + DigitVal(Char(digits, Len(digits)))

\* \d{n} at position i of the string
DigitsAt(str, i, n) ==
    /\ i + n - 1 <= Len(str)
    /\ \A j \in i .. i + n - 1 : IsDigit(Char(str, j))

\* the position after an optional [_-] at position i
SkipSep(str, i) == IF i <= Len(str) /\ IsSep(Char(str, i)) THEN i + 1 ELSE i

NoMatch == << >>

\* unix[_-]?(\d{n}) matched at position i: <<group 1>>, or NoMatch
DigitGroup(str, i, n) ==
    IF DigitsAt(str, i, n) THEN <<SubSeq(str, i, i + n - 1)>> ELSE NoMatch

UnixAt(str, i, n) ==
    IF i + 3 <= Len(str) /\ SubSeq(str, i, i + 3) = "unix"
    THEN DigitGroup(str, SkipSep(str, i + 4), n)
    ELSE NoMatch

\* the groups of a match: the first group before the groups of the rest
PrependGroup(group, rest) == IF rest = NoMatch THEN NoMatch ELSE <<group>> \o rest

RECURSIVE FieldsAt(_, _, _)
\* (\d{w1})[-_]?(\d{w2})[-_]?... matched at position i: the groups, or NoMatch
FieldsAt(str, i, widths) ==
    IF ~DigitsAt(str, i, widths[1]) THEN NoMatch
    ELSE IF Len(widths) = 1 THEN <<SubSeq(str, i, i + widths[1] - 1)>>
    ELSE PrependGroup(SubSeq(str, i, i + widths[1] - 1),
                      FieldsAt(str, SkipSep(str, i + widths[1]), Tail(widths)))

\* the patterns list, in order
Patterns == <<"unix16", "unix13", "unix10", "datetime", "date">>

MatchAt(pattern, str, i) ==
    CASE pattern = "unix16" -> UnixAt(str, i, 16)
      [] pattern = "unix13" -> UnixAt(str, i, 13)
      [] pattern = "unix10" -> UnixAt(str, i, 10)
      [] pattern = "datetime" -> FieldsAt(str, i, <<4, 2, 2, 2, 2, 2>>)
      [] pattern = "date" -> FieldsAt(str, i, <<4, 2, 2>>)

\* re.search(pattern, filename): the groups of the leftmost match, or NoMatch
LeftmostMatch(pattern, str, hits) ==
    IF hits = {} THEN NoMatch
    ELSE MatchAt(pattern, str, CHOOSE i \in hits : \A j \in hits : i <= j)

Search(pattern, str) ==
    LeftmostMatch(pattern, str,
                  {i \in 1 .. Len(str) : MatchAt(pattern, str, i) # NoMatch})

IsLeap(y) == (y % 4 = 0 /\ y % 100 # 0) \/ y % 400 = 0

DaysInMonth(y, m) ==
    IF m = 2 THEN (IF IsLeap(y) THEN 29 ELSE 28)
    ELSE IF m \in {4, 6, 9, 11} THEN 30 ELSE 31

\* the field values datetime(...) accepts; it raises ValueError on others
ValidDateTime(y, m, d, hh, mm, ss) ==
    /\ y \in 1 .. 9999
    /\ m \in 1 .. 12
    /\ d \in 1 .. DaysInMonth(y, m)
    /\ hh \in 0 .. 23
    /\ mm \in 0 .. 59
    /\ ss \in 0 .. 59

\* the offset of the process's local time from UTC, in seconds
LocalUtcOffset == 28800

RECURSIVE DivMod(_, _, _, _)
\* long division of a run of digits (from position i on) by 86400, so that no
\* intermediate value outgrows the machine integers: <<quotient, remainder>>
DivMod(digits, i, q, r) ==
    IF i > Len(digits) THEN <<q, r>>
    ELSE DivMod(digits, i + 1,
                10 * q + (10 * r + DigitVal(Char(digits, i))) \div 86400,
                (10 * r + DigitVal(Char(digits, i))) % 86400)

\* the calendar date of a day given by its year of era yoe, era, and day of
\* the (March-based) year doy; mp is the March-based month
CivilDate(yoe, era, doy, mp) ==
    <<yoe + era * 400 + (IF mp < 10 THEN 0 ELSE 1),
      IF mp < 10 THEN mp + 3 ELSE mp - 9,
      doy - (153 * mp + 2) \div 5 + 1>>

CivilOfYear(yoe, era, doy) == CivilDate(yoe, era, doy, (5 * doy + 2) \div 153)

CivilOfEra(era, doe, yoe) ==
    CivilOfYear(yoe, era, doe - (365 * yoe + yoe \div 4 - yoe \div 100))

CivilOfDay(era, doe) ==
    CivilOfEra(era, doe,
               (doe - doe \div 1460 + doe \div 36524 - doe \div 146096) \div 365)

CivilOfShifted(zz) == CivilOfDay(zz \div 146097, zz % 146097)

\* the calendar date <<year, month, day>> of day number z, counted from
\* 1970-01-01
CivilFromDays(z) == CivilOfShifted(z + 719468)

\* the local datetime of calendar date ymd, second of the day sod
LocalDateTime(ymd, sod, micro) ==
    <<ymd[1], ymd[2], ymd[3], sod \div 3600, (sod % 3600) \div 60, sod % 60, micro>>

\* the local datetime of day number `day` and `secs` seconds, secs < 2 days
DayAndSeconds(day, secs, micro) ==
    LocalDateTime(CivilFromDays(day + secs \div 86400), secs % 86400, micro)

FromQuotRem(qr, micro) == DayAndSeconds(qr[1], qr[2] + LocalUtcOffset, micro)

\* datetime.fromtimestamp(int(digits)) plus a microsecond part, in local time
FromTimestamp(digits, micro) == FromQuotRem(DivMod(digits, 1, 0, 0), micro)

\* datetime(y, m, d, hh, mm, ss): the datetime, or None when it raises
\* ValueError
MakeDateTime(y, m, d, hh, mm, ss) ==
    IF ValidDateTime(y, m, d, hh, mm, ss) THEN <<y, m, d, hh, mm, ss, 0>> ELSE None

\* a faulty variant of ParseMatch: the last 10 of 16 digits are read
ParseMatch_last10(pattern, g) ==
    CASE pattern = "unix16" -> FromTimestamp(SubSeq(g[1], 7, 16), 0)
      [] pattern = "unix13" ->
            FromTimestamp(SubSeq(g[1], 1, 10), 1000 * IntOf(SubSeq(g[1], 11, 13)))
      [] pattern = "unix10" -> FromTimestamp(g[1], 0)
      [] pattern = "datetime" ->
            MakeDateTime(IntOf(g[1]), IntOf(g[2]), IntOf(g[3]),
                         IntOf(g[4]), IntOf(g[5]), IntOf(g[6]))
      [] pattern = "date" ->
            MakeDateTime(IntOf(g[1]), IntOf(g[2]), IntOf(g[3]), 0, 0, 0)

\* a faulty variant of ParseMatch: the milliseconds of 13 digits are dropped
ParseMatch_ms_as_seconds(pattern, g) ==
    CASE pattern = "unix16" -> FromTimestamp(SubSeq(g[1], 1, 10), 0)
      [] pattern = "unix13" ->
            FromTimestamp(SubSeq(g[1], 1, 10), 0)
      [] pattern = "unix10" -> FromTimestamp(g[1], 0)
      [] pattern = "datetime" ->
            MakeDateTime(IntOf(g[1]), IntOf(g[2]), IntOf(g[3]),
                         IntOf(g[4]), IntOf(g[5]), IntOf(g[6]))
      [] pattern = "date" ->
            MakeDateTime(IntOf(g[1]), IntOf(g[2]), IntOf(g[3]), 0, 0, 0)

\* the body of the try block for one matched pattern: a datetime, or None
\* when datetime(...) raised ValueError (the loop then continues)
ParseMatch(pattern, g) ==
    CASE pattern = "unix16" -> FromTimestamp(SubSeq(g[1], 1, 10), 0)
      [] pattern = "unix13" ->
            FromTimestamp(SubSeq(g[1], 1, 10), 1000 * IntOf(SubSeq(g[1], 11, 13)))
      [] pattern = "unix10" -> FromTimestamp(g[1], 0)
      [] pattern = "datetime" ->
            MakeDateTime(IntOf(g[1]), IntOf(g[2]), IntOf(g[3]),
                         IntOf(g[4]), IntOf(g[5]), IntOf(g[6]))
      [] pattern = "date" ->
            MakeDateTime(IntOf(g[1]), IntOf(g[2]), IntOf(g[3]), 0, 0, 0)

RECURSIVE Cascade(_, _)

\* a faulty variant of on_value_error: the resolver gives up
on_value_error_return(filename, k) == None

\* except (ValueError, OSError): continue
on_value_error(filename, k) == Cascade(filename, k + 1)

\* return the parsed datetime, or handle the ValueError
CascadeStep(filename, k, parsed) ==
    IF parsed # None THEN parsed ELSE on_value_error(filename, k)

\* if match: the try block; else the next pattern
CascadeMatch(filename, k, g) ==
    IF g = NoMatch THEN Cascade(filename, k + 1)
    ELSE CascadeStep(filename, k, ParseMatch(Patterns[k], g))

\* for pattern in patterns[k:]: the first matched pattern that parses decides
Cascade(filename, k) ==
    IF k > Len(Patterns) THEN None
    ELSE CascadeMatch(filename, k, Search(Patterns[k], filename))

extract_timestamp_from_filename(filename) == Cascade(filename, 1)

(***************************************************************************)
(* The gallery organizer: organize_images_by_timestamp (full variant) and  *)
(* organize_images_fast / get_basic_image_info (fast variant).             *)
(***************************************************************************)
Missing == [missing |-> TRUE]

\* Python's None where the model holds records
NoneRec == [none |-> TRUE]

\* time_source values: "文件名", "EXIF", "文件修改时间"
SourceFilename == "filename"

SourceExif == "EXIF"

SourceModified == "file-modified-time"

\* a < b on datetimes
DtLess(a, b) ==
    \E i \in 1 .. 7 : a[i] < b[i] /\ \A j \in 1 .. i - 1 : a[j] = b[j]

\* datetime.strptime(text, '%Y:%m:%d %H:%M:%S') on a fixed-width text: the
\* datetime, or None when it raises ValueError
strptime(text) ==
    IF /\ Len(text) = 19
       /\ \A i \in {5, 8} : Char(text, i) = ":"
       /\ Char(text, 11) = " "
       /\ \A i \in {14, 17} : Char(text, i) = ":"
       /\ \A i \in (1 .. 19) \ {5, 8, 11, 14, 17} : IsDigit(Char(text, i))
    THEN MakeDateTime(IntOf(SubSeq(text, 1, 4)), IntOf(SubSeq(text, 6, 7)),
                      IntOf(SubSeq(text, 9, 10)), IntOf(SubSeq(text, 12, 13)),
                      IntOf(SubSeq(text, 15, 16)), IntOf(SubSeq(text, 18, 19)))
    ELSE None

\* get_image_metadata on the file f: None when Image.open raises (st.error is
\* called), else size, format, mode, file_size and, when the EXIF DateTime
\* tag is there and parses, datetime
get_image_metadata(f) ==
    IF f.image = NoneRec THEN NoneRec
    ELSE [size |-> f.image.size, format |-> f.image.format,
          mode |-> f.image.mode, file_size |-> f.file_size,
          datetime |-> IF f.image.exif = None THEN None
                       ELSE strptime(f.image.exif)]

\* a faulty variant of select_timestamp: EXIF is preferred to the filename
select_timestamp_exif_first(extracted_time, exif_time, file_time) ==
    IF exif_time # None
    THEN [timestamp |-> exif_time, time_source |-> SourceExif]
    ELSE IF extracted_time # None
    THEN [timestamp |-> extracted_time, time_source |-> SourceFilename]
    ELSE [timestamp |-> file_time, time_source |-> SourceModified]

\* a faulty variant of select_timestamp: no fallback to the modification
\* time
select_timestamp_no_fallback(extracted_time, exif_time, file_time) ==
    IF extracted_time # None
    THEN [timestamp |-> extracted_time, time_source |-> SourceFilename]
    ELSE IF exif_time # None
    THEN [timestamp |-> exif_time, time_source |-> SourceExif]
    ELSE [timestamp |-> None, time_source |-> SourceModified]

\* organize_images_by_timestamp: if extracted_time / elif exif_time / else
select_timestamp(extracted_time, exif_time, file_time) ==
    IF extracted_time # None
    THEN [timestamp |-> extracted_time, time_source |-> SourceFilename]
    ELSE IF exif_time # None
    THEN [timestamp |-> exif_time, time_source |-> SourceExif]
    ELSE [timestamp |-> file_time, time_source |-> SourceModified]

\* metadata.get('datetime') if metadata else None
exif_time_of(metadata) == IF metadata # NoneRec THEN metadata.datetime ELSE None

\* the dict appended to image_data
ImageRecord(img_path, f, chosen, metadata) ==
    [path |-> img_path, filename |-> f.filename,
     timestamp |-> chosen.timestamp, time_source |-> chosen.time_source,
     metadata |-> metadata]

\* the records appended for a file with the given metadata
RecordWith(img_path, f, metadata) ==
    <<ImageRecord(img_path, f,
                  select_timestamp(extract_timestamp_from_filename(f.filename),
                                   exif_time_of(metadata),
                                   FromTimestamp(f.mtime, 0)),
                  metadata)>>

\* a faulty variant of full_record: a file that cannot be opened yields no record
full_record_drop_undecodable(img_path, f) ==
    IF f.image = NoneRec THEN << >>
    ELSE RecordWith(img_path, f, get_image_metadata(f))

\* the loop body of organize_images_by_timestamp for a path that exists:
\* the records it appends
full_record(img_path, f) == RecordWith(img_path, f, get_image_metadata(f))

\* a faulty variant of on_missing: a missing path is reported with st.error
on_missing_report(img_path) == [data |-> << >>, errors |-> <<img_path>>]

\* if not os.path.exists(img_path): continue
on_missing(img_path) == [data |-> << >>, errors |-> << >>]

\* one pass of the loop of organize_images_by_timestamp: the records
\* appended and the paths st.error was called for
full_step(img_path, f) ==
    IF f = Missing THEN on_missing(img_path)
    ELSE [data |-> full_record(img_path, f),
          errors |-> IF f.image = NoneRec THEN <<img_path>> ELSE << >>]

Lower == "abcdefghijklmnopqrstuvwxyz"

Upper == "ABCDEFGHIJKLMNOPQRSTUVWXYZ"

\* str.upper() on one character
UpperChar(c) ==
    IF \E i \in 1 .. 26 : Char(Lower, i) = c
    THEN Char(Upper, CHOOSE i \in 1 .. 26 : Char(Lower, i) = c)
    ELSE c

RECURSIVE UpperNoDot(_)
\* .upper().replace('.', '')
UpperNoDot(str) ==
    IF Len(str) = 0 THEN ""
    ELSE (IF Char(str, 1) = "." THEN "" ELSE UpperChar(Char(str, 1)))
         \o UpperNoDot(SubSeq(str, 2, Len(str)))

\* os.path.splitext(filename)[1]: from the last dot on, unless that dot is
\* preceded by dots only
splitext_ext(filename) ==
    LET dots == {i \in 1 .. Len(filename) : Char(filename, i) = "."} IN
    IF dots = {} THEN ""
    ELSE LET last_dot == CHOOSE i \in dots : \A j \in dots : j <= i IN
         IF \A j \in 1 .. last_dot - 1 : Char(filename, j) = "." THEN ""
         ELSE SubSeq(filename, last_dot, Len(filename))

\* the dict get_basic_image_info returns
BasicInfo(image_path, f, chosen) ==
    [path |-> image_path, filename |-> f.filename,
     timestamp |-> chosen.timestamp, time_source |-> chosen.time_source,
     file_size |-> f.file_size,
     format |-> UpperNoDot(splitext_ext(f.filename))]

\* a faulty variant of get_basic_image_info: the image is opened and its
\* EXIF time takes part in the selection
get_basic_image_info_with_exif(image_path, f) ==
    IF f = Missing THEN NoneRec
    ELSE BasicInfo(image_path, f,
                   select_timestamp(extract_timestamp_from_filename(f.filename),
                                    exif_time_of(get_image_metadata(f)),
                                    FromTimestamp(f.mtime, 0)))

\* get_basic_image_info: None for a missing path, else the light record
get_basic_image_info(image_path, f) ==
    IF f = Missing THEN NoneRec
    ELSE BasicInfo(image_path, f,
                   select_timestamp(extract_timestamp_from_filename(f.filename),
                                    None, FromTimestamp(f.mtime, 0)))

\* if info: image_data.append(info)
AppendInfo(info) ==
    IF info = NoneRec THEN [data |-> << >>, errors |-> << >>]
    ELSE [data |-> <<info>>, errors |-> << >>]

\* one pass of the loop of organize_images_fast
fast_step(img_path, f) == AppendInfo(get_basic_image_info(img_path, f))

\* r put into sorted behind its first n records
InsertAt(sorted, r, n) ==
    SubSeq(sorted, 1, n) \o <<r>> \o SubSeq(sorted, n + 1, Len(sorted))

\* a faulty variant of InsertSorted: the record goes before the records of equal
\* timestamp
InsertBeforeEqual(sorted, r) ==
    InsertAt(sorted, r,
             Cardinality({i \in 1 .. Len(sorted) :
                 \A j \in 1 .. i : DtLess(sorted[j].timestamp, r.timestamp)}))

\* the place list.sort gives a record that comes after the records of sorted
\* in the list: behind every record whose timestamp is not greater
InsertSorted(sorted, r) ==
    InsertAt(sorted, r,
             Cardinality({i \in 1 .. Len(sorted) :
                 \A j \in 1 .. i : ~DtLess(r.timestamp, sorted[j].timestamp)}))

RECURSIVE SortByTimestamp(_)
\* image_data.sort(key=lambda x: x['timestamp']): a stable sort
SortByTimestamp(data) ==
    IF data = << >> THEN << >>
    ELSE InsertSorted(SortByTimestamp(SubSeq(data, 1, Len(data) - 1)),
                      data[Len(data)])

\* what two stretches of the loop append and report, one after the other
Both(head, rest) ==
    [data |-> head.data \o rest.data, errors |-> head.errors \o rest.errors]

RECURSIVE FullLoop(_, _)
\* for img_path in image_files: ... image_data.append(...)
FullLoop(paths, files) ==
    IF paths = << >> THEN [data |-> << >>, errors |-> << >>]
    ELSE Both(full_step(paths[1], files[paths[1]]), FullLoop(Tail(paths), files))

RECURSIVE FastLoop(_, _)
\* for i, img_path in enumerate(image_files): ... image_data.append(info)
FastLoop(paths, files) ==
    IF paths = << >> THEN [data |-> << >>, errors |-> << >>]
    ELSE Both(fast_step(paths[1], files[paths[1]]), FastLoop(Tail(paths), files))

\* image_data.sort(...); return image_data
Sorted(variant, loop) ==
    [variant |-> variant, data |-> SortByTimestamp(loop.data),
     errors |-> loop.errors]

\* organize_images_by_timestamp(image_files) on the filesystem files
organize_images_by_timestamp(paths, files) == Sorted("full", FullLoop(paths, files))

\* organize_images_fast(image_files) on the filesystem files
organize_images_fast(paths, files) == Sorted("fast", FastLoop(paths, files))

\* the files the model puts on the filesystem
FileNames == {"a.png", "20240102.jpg", "unix_1704124800.png"}

\* os.path.getmtime values, as runs of digits
ModifiedTimes == {"1704038400", "1704124800"}

\* what Image.open finds: NoneRec when it raises, else the image with the text
\* of its EXIF DateTime tag (None when it has none)
Images ==
    {NoneRec} \cup
    [size : {<<100, 100>>}, format : {"PNG"}, mode : {"RGB"},
     exif : {None, "2024:01:03 00:00:00", "0000:00:00 00:00:00"}]

Files ==
    {Missing} \cup
    [filename : FileNames, mtime : ModifiedTimes, file_size : {2048}, image : Images]

CacheIdle ==
    /\ max_size = 1
    /\ cache = << >>
    /\ access_time = << >>
    /\ decodable = {}
    /\ now = 0
    /\ last = NoCall
    /\ recency = << >>
    /\ hist = << >>
    /\ thr = [t \in Threads |-> IdleThread]

\* every list of up to MaxInput distinct paths over every filesystem
InitOrganize ==
    /\ CacheIdle
    /\ ExtraIdle
    /\ \E n \in 0 .. MaxInput :
           /\ image_files = [i \in 1 .. n |-> i]
           /\ fs \in [1 .. n -> Files]
    /\ organized = NoneRec

OrganizeByTimestamp ==
    /\ organized = NoneRec
    /\ organized' = organize_images_by_timestamp(image_files, fs)
    /\ UNCHANGED <<cacheVars, thr, fs, image_files, appVars, extraVars>>

OrganizeFast ==
    /\ organized = NoneRec
    /\ organized' = organize_images_fast(image_files, fs)
    /\ UNCHANGED <<cacheVars, thr, fs, image_files, appVars, extraVars>>

NextOrganize == OrganizeByTimestamp \/ OrganizeFast

SpecOrganize == InitOrganize /\ [][NextOrganize]_vars

(***************************************************************************)
(* Properties of the organizer, checked under SpecOrganize.  The input     *)
(* list is <<1, ..., n>>, so a record's path is its position in the input. *)
(***************************************************************************)
\* the call has returned
Returned == organized # NoneRec

Records == organized.data

\* the EXIF DateTime of the file f as a datetime, None when the image does
\* not open, has no such tag, or the tag does not parse
ExifDateTime(f) ==
    IF f.image = NoneRec THEN None
    ELSE IF f.image.exif = None THEN None
    ELSE strptime(f.image.exif)

\* C7: every record of organize_images_by_timestamp carries the filename
\* time with source filename when the resolver returns one, else the parsed
\* EXIF DateTime with source EXIF when there is one, else the modification
\* time with source file-modified-time
C7_TimestampPriority ==
    (Returned /\ organized.variant = "full") =>
        \A i \in 1 .. Len(Records) :
            \E r \in {Records[i]} : \E f \in {fs[Records[i].path]} :
                IF extract_timestamp_from_filename(f.filename) # None
                THEN /\ r.timestamp = extract_timestamp_from_filename(f.filename)
                     /\ r.time_source = SourceFilename
                ELSE IF ExifDateTime(f) # None
                THEN /\ r.timestamp = ExifDateTime(f)
                     /\ r.time_source = SourceExif
                ELSE /\ r.timestamp = FromTimestamp(f.mtime, 0)
                     /\ r.time_source = SourceModified

\* a file with a filename time and an EXIF time that differ was organized
\* by the full variant, together with a file that has neither
C7_Witness ==
    /\ Returned
    /\ organized.variant = "full"
    /\ \E i \in 1 .. Len(Records) :
           /\ Records[i].time_source = SourceFilename
           /\ ExifDateTime(fs[Records[i].path]) # None
           /\ ExifDateTime(fs[Records[i].path]) # Records[i].timestamp
    /\ \E i \in 1 .. Len(Records) : Records[i].time_source = SourceModified

\* C8: the returned sequence of either variant is in non-decreasing order of
\* timestamp, and records of equal timestamp are in the order of the input
C8_SortedStable ==
    Returned =>
        \A i, j \in 1 .. Len(Records) :
            i < j =>
                /\ ~DtLess(Records[j].timestamp, Records[i].timestamp)
                /\ Records[i].timestamp = Records[j].timestamp
                       => Records[i].path < Records[j].path

\* two files of equal timestamp, resolved from different filenames, were
\* organized
C8_Witness ==
    /\ Returned
    /\ Len(Records) = 2
    /\ Records[1].timestamp = Records[2].timestamp
    /\ Records[1].filename # Records[2].filename

\* os.path.exists(p)
Exists(p) == fs[p] # Missing

\* the input without its missing paths
ExistingFiles == SelectSeq(image_files, Exists)

\* the same variant run on the list paths
Rerun(paths) ==
    IF organized.variant = "full"
    THEN organize_images_by_timestamp(paths, fs)
    ELSE organize_images_fast(paths, fs)

Undecodable == {p \in 1 .. Len(image_files) : Exists(p) /\ fs[p].image = NoneRec}

C13_FastIgnoresExif ==
    (Returned /\ organized.variant = "fast") =>
        \A i \in 1 .. Len(Records) :
            \E r \in {Records[i]} : \E f \in {fs[Records[i].path]} :
                /\ r.time_source # SourceExif
                /\ IF extract_timestamp_from_filename(f.filename) # None
                   THEN /\ r.time_source = SourceFilename
                        /\ r.timestamp = extract_timestamp_from_filename(f.filename)
                        /\ r.timestamp = full_record(r.path, f)[1].timestamp
                   ELSE /\ r.time_source = SourceModified
                        /\ r.timestamp = FromTimestamp(f.mtime, 0)

\* the fast variant organized a file with an EXIF time whose filename does
\* not resolve and a file with an EXIF time whose filename does
C13_Witness ==
    /\ Returned
    /\ organized.variant = "fast"
    /\ \E i, j \in 1 .. Len(Records) :
           /\ Records[i].time_source = SourceModified
           /\ ExifDateTime(fs[Records[i].path]) # None
           /\ Records[j].time_source = SourceFilename
           /\ ExifDateTime(fs[Records[j].path]) # None

(***************************************************************************)
(* An organize call taken statement by statement while another actor       *)
(* deletes files: a read of a path that is gone raises FileNotFoundError.  *)
(***************************************************************************)
\* the locals of a call at the top of its loop
StartRun(variant) ==
    [variant |-> variant, pc |-> "exists", i |-> 1, f |-> NoneRec,
     file_time |-> None, data |-> << >>, errors |-> << >>, result |-> NoneRec]

\* the path the loop is at
img_path == image_files[run.i]

\* the loop goes on with the next path, or leaves for the sort
NextPath(r) ==
    [r EXCEPT !.i = r.i + 1, !.f = NoneRec, !.file_time = None,
              !.pc = IF r.i + 1 > Len(image_files) THEN "sort" ELSE "exists"]

\* an exception leaves the call: nothing is returned
Raise(r) == [r EXCEPT !.pc = "raised"]

\* file_time = datetime.fromtimestamp(os.path.getmtime(img_path)), outside
\* any try block
full_getmtime(r, file) ==
    IF file = Missing THEN Raise(r)
    ELSE [r EXCEPT !.file_time = FromTimestamp(file.mtime, 0), !.pc = "metadata"]

\* get_image_metadata(img_path) at the time it runs: Image.open or
\* os.path.getsize raise on a file that is gone, `except Exception` returns
\* None
metadata_now(r, file) ==
    IF file = Missing THEN NoneRec ELSE get_image_metadata(r.f)

\* lines 107-130 with the metadata just read: the record is appended
AppendRecord(r, p, metadata) ==
    NextPath([r EXCEPT
        !.data = Append(r.data,
                        ImageRecord(p, r.f,
                            select_timestamp(
                                extract_timestamp_from_filename(r.f.filename),
                                exif_time_of(metadata), r.file_time),
                            metadata)),
        !.errors = IF metadata = NoneRec THEN Append(r.errors, p) ELSE r.errors])

\* every list of up to MaxInput paths over every filesystem, either variant
InitRace ==
    /\ AppIdle
    /\ CacheIdle
    /\ \E n \in 0 .. MaxInput :
           /\ image_files = [i \in 1 .. n |-> i]
           /\ fs \in [1 .. n -> Files]
           /\ \E variant \in {"full", "fast"} :
                  run = IF n = 0 THEN [StartRun(variant) EXCEPT !.pc = "sort"]
                        ELSE StartRun(variant)
    /\ organized = NoneRec
    /\ session = NoneRec
    /\ grid = NoneRec
    /\ resolved = NoneRec

\* another actor removes a file while the call runs
DeleteFile ==
    /\ run.pc \notin {"done", "raised"}
    /\ \E p \in DOMAIN fs :
           /\ fs[p] # Missing
           /\ fs' = [fs EXCEPT ![p] = Missing]
    /\ UNCHANGED <<cacheVars, thr, image_files, appVars, organized, extraVars>>

\* if not os.path.exists(img_path): continue
FullExists ==
    /\ run.variant = "full" /\ run.pc = "exists"
    /\ run' = IF fs[img_path] = Missing THEN NextPath(run)
              ELSE [run EXCEPT !.f = fs[img_path], !.pc = "getmtime"]
    /\ UNCHANGED <<cacheVars, thr, organizeVars, appVars, session, grid, resolved>>

FullGetmtime ==
    /\ run.variant = "full" /\ run.pc = "getmtime"
    /\ run' = full_getmtime(run, fs[img_path])
    /\ UNCHANGED <<cacheVars, thr, organizeVars, appVars, session, grid, resolved>>

\* lines 107-130
FullMetadata ==
    /\ run.variant = "full" /\ run.pc = "metadata"
    /\ run' = AppendRecord(run, img_path, metadata_now(run, fs[img_path]))
    /\ UNCHANGED <<cacheVars, thr, organizeVars, appVars, session, grid, resolved>>

\* image_data.sort(...); return image_data
SortAndReturn ==
    /\ run.pc = "sort"
    /\ run' = [run EXCEPT !.pc = "done",
                          !.result = SortByTimestamp(run.data)]
    /\ UNCHANGED <<cacheVars, thr, organizeVars, appVars, session, grid, resolved>>

\* get_basic_image_info: if not os.path.exists(image_path): return None
FastExists ==
    /\ run.variant = "fast" /\ run.pc = "exists"
    /\ run' = IF fs[img_path] = Missing THEN NextPath(run)
              ELSE [run EXCEPT !.f = fs[img_path], !.pc = "getsize"]
    /\ UNCHANGED <<cacheVars, thr, organizeVars, appVars, session, grid, resolved>>

\* a read inside the try block of get_basic_image_info: on a file that is
\* gone it raises, `except Exception` returns None and the loop appends
\* nothing
fast_read(r, file, then) ==
    IF file = Missing THEN NextPath(r) ELSE then

\* file_size = os.path.getsize(image_path)
FastGetsize ==
    /\ run.variant = "fast" /\ run.pc = "getsize"
    /\ run' = fast_read(run, fs[img_path], [run EXCEPT !.pc = "getmtime"])
    /\ UNCHANGED <<cacheVars, thr, organizeVars, appVars, session, grid, resolved>>

\* lines 147-168 and the append of organize_images_fast
AppendBasicInfo(r, p) ==
    NextPath([r EXCEPT !.data = Append(r.data, get_basic_image_info(p, r.f))])

\* file_time = datetime.fromtimestamp(os.path.getmtime(image_path)) and the
\* rest of get_basic_image_info
FastGetmtime ==
    /\ run.variant = "fast" /\ run.pc = "getmtime"
    /\ run' = fast_read(run, fs[img_path], AppendBasicInfo(run, img_path))
    /\ UNCHANGED <<cacheVars, thr, organizeVars, appVars, session, grid, resolved>>

NextRace ==
    \/ DeleteFile
    \/ FullExists
    \/ FullGetmtime
    \/ FullMetadata
    \/ FastExists
    \/ FastGetsize
    \/ FastGetmtime
    \/ SortAndReturn

SpecRace == InitRace /\ [][NextRace]_vars

\* C11: whatever files another actor deletes during the call, no exception
\* leaves organize, and once it has returned, the result holds one record
\* for each path that was there throughout the call and none for a path that
\* was missing from the start
C11_NoPathAborts ==
    /\ run # NoneRec => run.pc # "raised"
    /\ (run # NoneRec /\ run.pc = "done") =>
           \A p \in DOMAIN fs :
               fs[p] # Missing
                   => \E k \in 1 .. Len(run.result) : run.result[k].path = p

(***************************************************************************)
(* Repeated organize calls in one process over files that do not change, *)
(* with the state the process keeps between them: the lru_cache of the     *)
(* optimized resolver and the st.cache_data entries of                     *)
(* get_basic_image_info and organize_images_fast.                          *)
(***************************************************************************)
\* organize calls of one variant in a run of the model
MaxRepeats == 2

\* @lru_cache(maxsize=200): the stored result when the filename was resolved
\* before (the model stays below maxsize)
lru_lookup(lru, filename) ==
    IF filename \in DOMAIN lru THEN lru[filename]
    ELSE extract_timestamp_from_filename(filename)

\* the lru_cache after a call for filename
lru_store(lru, filename) ==
    IF filename \in DOMAIN lru THEN lru
    ELSE (filename :> extract_timestamp_from_filename(filename)) @@ lru

\* the body of get_basic_image_info, its resolver going through lru
basic_info_body(lru, p, f) ==
    IF f = Missing THEN NoneRec
    ELSE BasicInfo(p, f, select_timestamp(lru_lookup(lru, f.filename), None,
                                          FromTimestamp(f.mtime, 0)))

\* @st.cache_data(ttl=300) on get_basic_image_info, called for path p: the
\* stored value when there is one, else the body runs and its value is stored
InfoCall(c, p, f) ==
    IF p \in DOMAIN c.info_memo
    THEN [info |-> c.info_memo[p], lru |-> c.lru, info_memo |-> c.info_memo]
    ELSE [info |-> basic_info_body(c.lru, p, f),
          lru |-> IF f = Missing THEN c.lru ELSE lru_store(c.lru, f.filename),
          info_memo |-> (p :> basic_info_body(c.lru, p, f)) @@ c.info_memo]

\* if info: image_data.append(info)
AppendIfInfo(data, info) == IF info = NoneRec THEN data ELSE Append(data, info)

RECURSIVE FastLoopMemo(_, _, _, _)
\* the loop of organize_images_fast goes on after the call c for paths[1]
FastLoopNext(paths, files, c, data) ==
    FastLoopMemo(Tail(paths), files, c, AppendIfInfo(data, c.info))

\* the loop of organize_images_fast over the memoised get_basic_image_info:
\* image_data and the memos at its end
FastLoopMemo(paths, files, c, data) ==
    IF paths = << >>
    THEN [data |-> data, lru |-> c.lru, info_memo |-> c.info_memo]
    ELSE FastLoopNext(paths, files, InfoCall(c, paths[1], files[paths[1]]), data)

\* a faulty variant of initial_image_data: the list of the previous call is
\* kept (a module-level list)
image_data_kept(previous) == previous

\* image_data = []: each call starts from a fresh list, whatever the
\* previous call built
initial_image_data(previous) == << >>

\* the first result of a variant, once there is one
FirstOf(first, result) == IF first = NoneRec THEN result ELSE first

\* one more call, up to MaxRepeats
Counted(n) == IF n < MaxRepeats THEN n + 1 ELSE n

\* the process has made no call and holds no memo
FreshSession ==
    [lru |-> << >>, info_memo |-> << >>, fast_memo |-> NoneRec,
     full_list |-> << >>, fast_list |-> << >>,
     first_full |-> NoneRec, first_fast |-> NoneRec,
     n_full |-> 0, n_fast |-> 0]

\* the files of the repeated calls: missing, not opening, with and without
\* a filename time and an EXIF time
RepeatFiles ==
    {Missing} \cup
    [filename : {"a.png", "20240102.jpg"}, mtime : {"1704038400"},
     file_size : {2048},
     image : {NoneRec,
              [size |-> <<100, 100>>, format |-> "PNG", mode |-> "RGB",
               exif |-> "2024:01:03 00:00:00"]}]

\* neither organize function refers to image_cache: it stays at rest
InitRepeat ==
    /\ AppIdle
    /\ CacheIdle
    /\ \E n \in 0 .. MaxInput :
           /\ image_files = [i \in 1 .. n |-> i]
           /\ fs \in [1 .. n -> RepeatFiles]
    /\ organized = NoneRec
    /\ run = NoneRec
    /\ session = FreshSession
    /\ grid = NoneRec
    /\ resolved = NoneRec

\* organize_images_by_timestamp(image_files), once more
RepeatFull ==
    /\ organized' = Sorted("full",
                           Both([data |-> initial_image_data(session.full_list),
                                 errors |-> << >>],
                                FullLoop(image_files, fs)))
    /\ session' = [session EXCEPT !.full_list = organized'.data,
                                  !.first_full = FirstOf(@, organized'),
                                  !.n_full = Counted(@)]
    /\ UNCHANGED <<cacheVars, thr, fs, image_files, appVars, run, grid, resolved>>

\* organize_images_fast(image_files) served from its st.cache_data entry
RepeatFastHit ==
    /\ session.fast_memo # NoneRec
    /\ organized' = session.fast_memo
    /\ session' = [session EXCEPT !.n_fast = Counted(@)]
    /\ UNCHANGED <<cacheVars, thr, fs, image_files, appVars, run, grid, resolved>>

\* organize_images_fast(image_files) with no entry for image_files: the body
\* runs and its result is stored
RepeatFastMiss ==
    /\ session.fast_memo = NoneRec
    /\ \E loop \in {FastLoopMemo(image_files, fs,
                                 [lru |-> session.lru,
                                  info_memo |-> session.info_memo],
                                 initial_image_data(session.fast_list))} :
           /\ organized' = [variant |-> "fast",
                            data |-> SortByTimestamp(loop.data),
                            errors |-> << >>]
           /\ session' = [session EXCEPT !.lru = loop.lru,
                                         !.info_memo = loop.info_memo,
                                         !.fast_memo = organized',
                                         !.fast_list = organized'.data,
                                         !.first_fast = FirstOf(@, organized'),
                                         !.n_fast = Counted(@)]
    /\ UNCHANGED <<cacheVars, thr, fs, image_files, appVars, run, grid, resolved>>

\* ttl=300 has passed for the entry of organize_images_fast
ExpireFast ==
    /\ session.fast_memo # NoneRec
    /\ session' = [session EXCEPT !.fast_memo = NoneRec]
    /\ UNCHANGED <<cacheVars, thr, organizeVars, appVars, run, grid, resolved>>

\* ttl=300 has passed for an entry of get_basic_image_info
ExpireInfo ==
    /\ \E p \in DOMAIN session.info_memo :
           session' = [session EXCEPT !.info_memo =
                           [q \in DOMAIN session.info_memo \ {p}
                                |-> session.info_memo[q]]]
    /\ UNCHANGED <<cacheVars, thr, organizeVars, appVars, run, grid, resolved>>

NextRepeat ==
    \/ RepeatFull
    \/ RepeatFastHit
    \/ RepeatFastMiss
    \/ ExpireFast
    \/ ExpireInfo

SpecRepeat == InitRepeat /\ [][NextRepeat]_vars

\* C12: while the files are unchanged, every organize call of a variant
\* returns the records, in the order, of the first call of that variant,
\* whatever the lru_cache and the st.cache_data entries hold by then
C12_SameResultAgain ==
    (session # NoneRec /\ organized # NoneRec) =>
        organized = IF organized.variant = "full" THEN session.first_full
                    ELSE session.first_fast

\* each variant was called again, the fast variant's body ran with stored
\* get_basic_image_info values, and the result has two records
C12_Witness ==
    /\ session # NoneRec
    /\ organized # NoneRec
    /\ session.n_full = MaxRepeats
    /\ session.n_fast = MaxRepeats
    /\ session.fast_memo # NoneRec
    /\ DOMAIN session.info_memo # {}
    /\ Len(organized.data) = 2

(***************************************************************************)
(* The resolver on composed filenames, and the organizer on a file of that *)
(* name.                                                                   *)
(***************************************************************************)
\* what stands before the tag: nothing, text, an earlier date-like run
NamePrefixes == {"", "img_", "20230505x"}

\* unix tags, and none
NameTags == {"", "unix_", "unix-", "unix"}

\* the digits the runs are cut from
BaseDigits == "17041248001234567890"

\* runs of digits of every length up to MaxDigits, and date-like runs: valid
\* and invalid dates and date-times, with and without separators
NameRuns ==
    {SubSeq(BaseDigits, 1, n) : n \in {0} \cup (9 .. MaxDigits)}
    \cup {"20240101", "20241301", "20240101123456", "20240101256060",
          "20240230235959", "2024-01-01_14-30-00"}

\* what follows: the extension, after something date-like or not
NameSuffixes == {".png", "_20240102.png"}

\* the filenames resolved
Names ==
    {p \o t \o r \o x : p \in NamePrefixes, t \in NameTags, r \in NameRuns,
                          x \in NameSuffixes}

\* a file of the given name: not opening, without or with an EXIF time
NamedFiles(name) ==
    [filename : {name}, mtime : {"1704038400"}, file_size : {2048},
     image : {NoneRec,
              [size |-> <<100, 100>>, format |-> "PNG", mode |-> "RGB",
               exif |-> None],
              [size |-> <<100, 100>>, format |-> "PNG", mode |-> "RGB",
               exif |-> "2024:01:03 00:00:00"]}]

InitResolve ==
    /\ AppIdle
    /\ CacheIdle
    /\ \E name \in Names :
           /\ resolved = [filename |-> name, done |-> FALSE, result |-> None]
           /\ \E f \in NamedFiles(name) : fs = <<f>>
    /\ image_files = <<1>>
    /\ organized = NoneRec
    /\ run = NoneRec
    /\ session = NoneRec
    /\ grid = NoneRec

\* extract_timestamp_from_filename(filename)
Resolve ==
    /\ ~resolved.done
    /\ resolved' = [resolved EXCEPT
                        !.done = TRUE,
                        !.result = extract_timestamp_from_filename(resolved.filename)]
    /\ UNCHANGED <<cacheVars, thr, organizeVars, appVars, run, session, grid>>

NextResolve == Resolve \/ OrganizeByTimestamp \/ OrganizeFast

SpecResolve == InitResolve /\ [][NextResolve]_vars

\* re.search finds none of the patterns in the filename
NoPatternMatches(filename) ==
    \A k \in 1 .. Len(Patterns) : Search(Patterns[k], filename) = NoMatch

\* C14: for a filename in which no pattern matches the resolver returns
\* None; either organizer still emits the record, with the modification time
\* and source file-modified-time when there is no EXIF time to use, and no
\* record of any output has an empty timestamp
C14_NoMatchFallsBack ==
    /\ (resolved # NoneRec /\ resolved.done /\ NoPatternMatches(resolved.filename))
           => resolved.result = None
    /\ (resolved # NoneRec /\ Returned) =>
           /\ Len(Records) = 1
           /\ Records[1].timestamp # None
           /\ (/\ NoPatternMatches(fs[1].filename)
               /\ (organized.variant = "fast" \/ ExifDateTime(fs[1]) = None))
                  => /\ Records[1].timestamp = FromTimestamp(fs[1].mtime, 0)
                     /\ Records[1].time_source = SourceModified

\* a filename without a match was resolved, and the full variant organized
\* its file, whose image opens and has no EXIF time
C14_Witness ==
    /\ resolved # NoneRec
    /\ resolved.done
    /\ NoPatternMatches(resolved.filename)
    /\ Returned
    /\ organized.variant = "full"
    /\ Records[1].metadata # NoneRec
    /\ Records[1].time_source = SourceModified

\* two results of the resolver are the same: both None, or the same datetime
SameTime(a, b) ==
    IF a = None \/ b = None THEN a = None /\ b = None ELSE a = b

\* the filename has the text unix at position i
TagAt(str, i) == i + 3 <= Len(str) /\ SubSeq(str, i, i + 3) = "unix"

\* the digits that follow position i without a break
RunLength(str, i) ==
    Cardinality({n \in 1 .. Len(str) :
        \A j \in i .. i + n - 1 : j <= Len(str) /\ IsDigit(Char(str, j))})

\* unix_ or unix- at position i, followed by a run of exactly n digits
TaggedRun(str, i, n) ==
    /\ TagAt(str, i)
    /\ i + 4 <= Len(str)
    /\ IsSep(Char(str, i + 4))
    /\ RunLength(str, i + 5) = n

\* the first k digits of the run tagged at i
RunDigits(str, i, k) == SubSeq(str, i + 5, i + 4 + k)

C16_UnitFollowsDigitCount ==
    (resolved # NoneRec /\ resolved.done) =>
        \A i \in 1 .. Len(resolved.filename) :
            /\ TaggedRun(resolved.filename, i, 13)
                   => SameTime(resolved.result,
                               FromTimestamp(
                                   RunDigits(resolved.filename, i, 10),
                                   1000 * IntOf(SubSeq(resolved.filename, i + 15, i + 17))))
            /\ TaggedRun(resolved.filename, i, 10)
                   => SameTime(resolved.result,
                               FromTimestamp(RunDigits(resolved.filename, i, 10), 0))

\* a 13-digit unix run with a millisecond part that is not zero was resolved
C16_Witness ==
    /\ resolved # NoneRec
    /\ resolved.done
    /\ \E i \in 1 .. Len(resolved.filename) :
           /\ TaggedRun(resolved.filename, i, 13)
           /\ IntOf(SubSeq(resolved.filename, i + 15, i + 17)) # 0
    /\ resolved.result # None
    /\ resolved.result[7] # 0

\* unix_ or unix- at position i, followed by a run of more than 10 digits
\* that is not 13 or 16 digits long
OddTaggedRun(str, i) ==
    /\ TagAt(str, i)
    /\ i + 4 <= Len(str)
    /\ IsSep(Char(str, i + 4))
    /\ RunLength(str, i + 5) > 10
    /\ RunLength(str, i + 5) \notin {13, 16}

\* C17: a unix-tagged run of 11, 12, 14, 15, 17 or more digits is not read
\* as an epoch value: the result is neither its leading 10 digits as epoch
\* seconds nor its leading 13 digits as epoch milliseconds
C17_OnlyExactRunLengths ==
    (resolved # NoneRec /\ resolved.done) =>
        \A i \in 1 .. Len(resolved.filename) :
            OddTaggedRun(resolved.filename, i) =>
                /\ ~SameTime(resolved.result,
                             FromTimestamp(RunDigits(resolved.filename, i, 10), 0))
                /\ ~SameTime(resolved.result,
                             FromTimestamp(
                                 RunDigits(resolved.filename, i, 10),
                                 1000 * IntOf(SubSeq(resolved.filename, i + 15, i + 17))))

\* the groups of the 14-digit date-time match of the resolved filename
DateTimeMatch == Search("datetime", resolved.filename)

\* the groups of the 8-digit date match of the resolved filename
DateMatch == Search("date", resolved.filename)

\* where the leftmost match of pattern starts in str
FirstMatchPos(pattern, str) ==
    CHOOSE i \in 1 .. Len(str) :
        /\ MatchAt(pattern, str, i) # NoMatch
        /\ \A j \in 1 .. i - 1 : MatchAt(pattern, str, j) = NoMatch

\* the resolver was called on a filename in which no unix pattern matches
\* and the date-time pattern matches fields that are no valid date-time
InvalidDateTimeMatch ==
    /\ resolved # NoneRec
    /\ resolved.done
    /\ \A k \in 1 .. 3 : Search(Patterns[k], resolved.filename) = NoMatch
    /\ DateTimeMatch # NoMatch
    /\ ParseMatch("datetime", DateTimeMatch) = None

\* midnight of the date made of the first three groups of g, or None
MidnightOf(g) == MakeDateTime(IntOf(g[1]), IntOf(g[2]), IntOf(g[3]), 0, 0, 0)

\* C18: when the date-time pattern matches fields that are no valid
\* date-time, the resolver goes on to the date pattern instead of failing:
\* it returns midnight of the date made of the filename's leading 8
\* date-like digits when they form a valid date, and None only when the
\* date pattern fails too; those digits are the leading 8 digits of the
\* date-time match when no date-like run starts earlier in the filename
C18_FallsThroughToDatePattern ==
    InvalidDateTimeMatch =>
        /\ SameTime(resolved.result, MidnightOf(DateMatch))
        /\ FirstMatchPos("date", resolved.filename)
               = FirstMatchPos("datetime", resolved.filename)
                  => SameTime(resolved.result, MidnightOf(DateTimeMatch))

\* an invalid date-time whose leading 8 digits are a valid date was resolved
\* to midnight of that date
C18_Witness ==
    /\ InvalidDateTimeMatch
    /\ resolved.result # None
    /\ resolved.result = MidnightOf(DateTimeMatch)

(***************************************************************************)
(* The grid view: show_image_grid_preview and show_optimized_grid_preview.  *)
(* The records are stood for by their positions 1..n in image_data.  The    *)
(* widgets return one of their options: the select_slider a column count,   *)
(* the selectbox a page number.                                             *)
(***************************************************************************)

\* options=[2, 3, 4, 5, 6] of the column slider
GridOptions == {2, 3, 4, 5, 6}

\* the cols argument of a call: the default 4 of both call sites, and the
\* values 0 and -1 a caller may pass
ColsArgs == {-1, 0, 4}

\* cols * 4 in the full view, cols * 3 in the optimized view
RowsPerPage(variant) == IF variant = "full" THEN 4 ELSE 3

images_per_page(cols, variant) == cols * RowsPerPage(variant)

\* a faulty variant of total_pages: the division rounds down
total_pages_floor(n, per_page) == n \div per_page

\* (len(image_data) + images_per_page - 1) // images_per_page
total_pages(n, per_page) == (n + per_page - 1) \div per_page

min(a, b) == IF a <= b THEN a ELSE b

\* image_data[a:b] for 0 <= a: Python clamps both ends to the length
PySlice(seq, a, b) == SubSeq(seq, min(a, Len(seq)) + 1, min(b, Len(seq)))

start_idx(page, per_page) == (page - 1) * per_page

end_idx(start, per_page, n) == min(start + per_page, n)

\* the records of a page: the slice when there are several pages, the
\* whole list when there is one page or none
page_images(image_data, per_page, pages, page) ==
    IF pages > 1
    THEN PySlice(image_data, start_idx(page, per_page),
                 end_idx(start_idx(page, per_page), per_page, Len(image_data)))
    ELSE image_data

\* the cells laid out: st.columns(cols) for each i in range(0, len, cols)
Slots(len, cols) == cols * ((len + cols - 1) \div cols)

\* the keys of the buttons of the filled cells: start_idx + i + j
ButtonKeys(start, len) == [c \in 1 .. len |-> start + c - 1]

\* no pass of the grid view has run on image_data
GridStart(image_data) ==
    [image_data |-> image_data, variant |-> "none", cols_arg |-> 4,
     outcome |-> "none", cols |-> 0, images_per_page |-> 0,
     total_pages |-> 0, page |-> 0, start_idx |-> 0, page_images |-> << >>,
     slots |-> 0, keys |-> << >>]

\* if not image_data: st.warning(...); return
EmptyGrid(g, variant, cols_arg) ==
    [g EXCEPT !.variant = variant, !.cols_arg = cols_arg,
              !.outcome = "warning"]

\* st.select_slider raised on a value that is none of its options
SliderRaised(g, variant, cols_arg) ==
    [g EXCEPT !.variant = variant, !.cols_arg = cols_arg,
              !.outcome = "raised"]

\* the page laid out
LaidOut(g, variant, cols_arg, cols, per_page, pages, page, start, shown) ==
    [image_data |-> g.image_data, variant |-> variant, cols_arg |-> cols_arg,
     outcome |-> "shown", cols |-> cols, images_per_page |-> per_page,
     total_pages |-> pages, page |-> page, start_idx |-> start,
     page_images |-> shown, slots |-> Slots(Len(shown), cols),
     keys |-> ButtonKeys(start, Len(shown))]

\* if total_pages > 1: page = st.selectbox(...) ... else: start_idx = 0
Paged(g, variant, cols_arg, cols, per_page, pages, page) ==
    LaidOut(g, variant, cols_arg, cols, per_page, pages,
            IF pages > 1 THEN page ELSE 0,
            IF pages > 1 THEN start_idx(page, per_page) ELSE 0,
            page_images(g.image_data, per_page, pages, page))

\* the body after the slider returned cols; the selectbox returns one of
\* range(1, total_pages + 1)
ShowGrid(g, variant, cols_arg, cols, per_page, pages) ==
    \E page \in 1 .. (IF pages > 1 THEN pages ELSE 1) :
        grid' = Paged(g, variant, cols_arg, cols, per_page, pages, page)

\* the slider: it returns one of its options; when value=cols is none of
\* them the library decides, it raises or it returns an option
SelectSlider(g, variant, cols_arg) ==
    \/ /\ cols_arg \notin GridOptions
       /\ grid' = SliderRaised(g, variant, cols_arg)
    \/ \E cols \in GridOptions :
           \E per_page \in {images_per_page(cols, variant)} :
               ShowGrid(g, variant, cols_arg, cols, per_page,
                        total_pages(Len(g.image_data), per_page))

\* a pass of either view on the records of the last pass
GridPreview(variant, cols_arg) ==
    /\ grid # NoneRec
    /\ IF grid.image_data = << >>
       THEN grid' = EmptyGrid(grid, variant, cols_arg)
       ELSE SelectSlider(GridStart(grid.image_data), variant, cols_arg)
    /\ UNCHANGED <<cacheVars, thr, organizeVars, appVars, run, session, resolved>>

InitGrid ==
    /\ AppIdle
    /\ CacheIdle
    /\ fs = << >>
    /\ image_files = << >>
    /\ organized = NoneRec
    /\ run = NoneRec
    /\ session = NoneRec
    /\ resolved = NoneRec
    /\ \E n \in 0 .. MaxItems : grid = GridStart([i \in 1 .. n |-> i])

\* show_image_grid_preview(image_data, cols)
ShowImageGridPreview == \E cols_arg \in ColsArgs : GridPreview("full", cols_arg)

\* show_optimized_grid_preview(image_data, cols)
ShowOptimizedGridPreview ==
    \E cols_arg \in ColsArgs : GridPreview("optimized", cols_arg)

NextGrid == ShowImageGridPreview \/ ShowOptimizedGridPreview

SpecGrid == InitGrid /\ [][NextGrid]_vars

(***************************************************************************)
(* Claims about the grid view, checked under SpecGrid.                      *)
(***************************************************************************)

\* a pass laid a page out
GridShown == grid # NoneRec /\ grid.outcome = "shown"

\* the number of the page laid out: 1 when there is no selectbox
ShownPage == IF grid.total_pages > 1 THEN grid.page ELSE 1

\* the pages 1..k of the view, one after the other
RECURSIVE PagesUpTo(_, _, _, _)
PagesUpTo(image_data, per_page, pages, k) ==
    IF k = 0 THEN << >>
    ELSE PagesUpTo(image_data, per_page, pages, k - 1)
             \o page_images(image_data, per_page, pages, k)

\* C19: with n records and the column count the slider returned,
\* images_per_page is columns times the rows multiplier (4 full, 3
\* optimized), total_pages is the ceiling of n / images_per_page, the page
\* laid out is the slice from (k-1)*images_per_page to
\* min(k*images_per_page, n), non-empty and inside the list, every
\* selectable page is non-empty and the pages in order make up the whole
\* list; with 4 columns, 3 rows and 10 records one page of 12 slots holds
\* all 10 in order
C19_PagesPartitionRecords ==
    GridShown =>
        /\ grid.cols \in 2 .. 6
        /\ grid.images_per_page
               = grid.cols * (IF grid.variant = "optimized" THEN 3 ELSE 4)
        /\ (grid.total_pages - 1) * grid.images_per_page < Len(grid.image_data)
        /\ Len(grid.image_data) <= grid.total_pages * grid.images_per_page
        /\ ShownPage \in 1 .. grid.total_pages
        /\ grid.start_idx = (ShownPage - 1) * grid.images_per_page
        /\ grid.start_idx >= 0
        /\ grid.start_idx < Len(grid.image_data)
        /\ grid.start_idx + Len(grid.page_images)
               = min(ShownPage * grid.images_per_page, Len(grid.image_data))
        /\ grid.page_images # << >>
        /\ \A c \in 1 .. Len(grid.page_images) :
               grid.page_images[c] = grid.image_data[grid.start_idx + c]
        /\ \A k \in 1 .. grid.total_pages :
               page_images(grid.image_data, grid.images_per_page,
                           grid.total_pages, k) # << >>
        /\ PagesUpTo(grid.image_data, grid.images_per_page,
                     grid.total_pages, grid.total_pages) = grid.image_data
        /\ (/\ grid.variant = "optimized"
            /\ grid.cols = 4
            /\ Len(grid.image_data) = 10)
               => /\ grid.images_per_page = 12
                  /\ grid.total_pages = 1
                  /\ grid.slots = 12
                  /\ grid.page_images = grid.image_data

\* the last of several pages was laid out and it is not full
C19_Witness ==
    /\ GridShown
    /\ grid.total_pages > 1
    /\ grid.page = grid.total_pages
    /\ Len(grid.page_images) < grid.images_per_page
    /\ Len(grid.page_images) > 0

\* C20: a pass of the grid view given a zero or negative column count ends
\* in an error that names the configuration: it does not return after a
\* warning or a layout
C20_InvalidColumnsRejected ==
    (/\ grid # NoneRec
     /\ grid.outcome # "none"
     /\ grid.cols_arg <= 0)
        => grid.outcome = "raised"

(***************************************************************************)
(* The timeline view: show_timeline_preview and                             *)
(* show_optimized_timeline_preview, which differ in the names of their      *)
(* session-state keys only.  st.session_state outlives a pass and the       *)
(* collection shown.  The slider returns the position the user chose, one   *)
(* of min_value..max_value.                                                 *)
(***************************************************************************)

max(a, b) == IF a >= b THEN a ELSE b

\* max(0, selected_index - 1)
previous_index(selected_index, n) == max(0, selected_index - 1)

\* a faulty variant of next_index: it skips a record
next_index_skip(selected_index, n) == min(n - 1, selected_index + 2)

\* min(len(image_data) - 1, selected_index + 1)
next_index(selected_index, n) == min(n - 1, selected_index + 1)

\* a view of n records before its first pass, the session state without
\* the timeline key
TimelineStart(variant, n) ==
    [variant |-> variant, n |-> n, stored |-> FALSE, timeline_index |-> 0,
     handed |-> -1, selected_index |-> 0, outcome |-> "none",
     last |-> "none", switched |-> FALSE]

\* st.session_state.timeline_index as the slider will get it: 0 when the
\* key is not in the session state
InitialValue(t) == IF t.stored THEN t.timeline_index ELSE 0

\* if not image_data: st.warning(...); return
TimelineEmpty(t) == [t EXCEPT !.outcome = "warning", !.last = "pass", !.handed = -1]

\* else: selected_index = 0; the session state is not touched
TimelineSingle(t) ==
    [t EXCEPT !.outcome = "shown", !.last = "pass", !.handed = -1,
              !.selected_index = 0]

\* the slider returned selected_index: it is stored and the record shown
TimelineSelected(t, value, selected_index) ==
    [t EXCEPT !.outcome = "shown", !.last = "pass", !.handed = value,
              !.stored = TRUE, !.timeline_index = selected_index,
              !.selected_index = selected_index]

\* st.slider raised: the key was initialized, nothing else was stored
TimelineRaised(t, value) ==
    [t EXCEPT !.outcome = "raised", !.last = "pass", !.handed = value,
              !.stored = TRUE, !.timeline_index = value]

\* st.slider(min_value=0, max_value=len(image_data) - 1, value=...): the
\* position the user chose; when value is outside min_value..max_value the
\* library decides, it raises or it returns a position
TimelineSlider(t, value) ==
    \/ /\ value \notin 0 .. t.n - 1
       /\ timeline' = TimelineRaised(t, value)
    \/ \E selected_index \in 0 .. t.n - 1 :
           timeline' = TimelineSelected(t, value, selected_index)

\* a pass of show_timeline_preview(image_data) up to the buttons
TimelinePass ==
    /\ timeline # NoneRec
    /\ IF timeline.n = 0 THEN timeline' = TimelineEmpty(timeline)
       ELSE IF timeline.n = 1 THEN timeline' = TimelineSingle(timeline)
       ELSE TimelineSlider(timeline, InitialValue(timeline))
    /\ UNCHANGED <<cacheVars, thr, organizeVars, extraVars, interface, auth, online>>

\* a click on a navigation button of the record shown: a disabled button
\* does nothing, otherwise the index is stored and st.rerun() ends the pass
Navigate(button, disabled, index) ==
    /\ timeline # NoneRec
    /\ timeline.outcome = "shown"
    /\ timeline' = IF disabled THEN [timeline EXCEPT !.last = button]
                   ELSE [timeline EXCEPT !.last = button, !.outcome = "rerun",
                                         !.stored = TRUE,
                                         !.timeline_index = index]
    /\ UNCHANGED <<cacheVars, thr, organizeVars, extraVars, interface, auth, online>>

\* st.button("上一张", disabled=(selected_index == 0))
TimelinePrevious ==
    Navigate("previous", timeline.selected_index = 0,
             previous_index(timeline.selected_index, timeline.n))

\* st.button("下一张", disabled=(selected_index == len(image_data) - 1))
TimelineNext ==
    Navigate("next", timeline.selected_index = timeline.n - 1,
             next_index(timeline.selected_index, timeline.n))

\* the user opens another dataset: the next pass gets its records, the
\* session state is the same
SwitchDataset ==
    /\ timeline # NoneRec
    /\ \E n \in 0 .. MaxShown :
           /\ n # timeline.n
           /\ timeline' = [timeline EXCEPT !.n = n, !.outcome = "none",
                                           !.last = "switch",
                                           !.switched = TRUE]
    /\ UNCHANGED <<cacheVars, thr, organizeVars, extraVars, interface, auth, online>>

InitTimeline ==
    /\ CacheIdle
    /\ fs = << >>
    /\ image_files = << >>
    /\ organized = NoneRec
    /\ run = NoneRec
    /\ session = NoneRec
    /\ grid = NoneRec
    /\ resolved = NoneRec
    /\ interface = NoneRec
    /\ auth = NoneRec
    /\ online = NoneRec
    /\ \E variant \in {"full", "optimized"}, n \in 0 .. MaxShown :
           timeline = TimelineStart(variant, n)

NextTimeline ==
    TimelinePass \/ TimelinePrevious \/ TimelineNext \/ SwitchDataset

SpecTimeline == InitTimeline /\ [][NextTimeline]_vars

(***************************************************************************)
(* Claims about the timeline view, checked under SpecTimeline.              *)
(***************************************************************************)

\* the view has shown one collection only
FixedCollection == timeline # NoneRec /\ ~timeline.switched /\ timeline.n >= 1

\* the step is a click on the named button of a fixed collection
Clicked(button) ==
    /\ FixedCollection
    /\ timeline.outcome = "shown"
    /\ timeline'.last = button
    /\ timeline' # timeline \/ timeline.last = button

\* what a click on previous did to the stored index
PreviousClamped ==
    /\ timeline.stored =>
           timeline'.timeline_index
               = (IF timeline.timeline_index = 0 THEN 0
                  ELSE timeline.timeline_index - 1)
    /\ timeline.selected_index > 0 =>
           (timeline'.stored
               /\ timeline'.timeline_index = timeline.selected_index - 1)

\* what a click on next did to the stored index
NextClamped ==
    /\ timeline.stored =>
           timeline'.timeline_index
               = (IF timeline.timeline_index = timeline.n - 1
                  THEN timeline.n - 1
                  ELSE timeline.timeline_index + 1)
    /\ timeline.selected_index < timeline.n - 1 =>
           (timeline'.stored
               /\ timeline'.timeline_index = timeline.selected_index + 1)

\* C21: with a fixed collection of n >= 1 records the stored index is in
\* 0..n-1 after every action; previous at index 0 leaves it at 0 and next
\* at n-1 leaves it at n-1, and elsewhere previous and next move it by
\* exactly one
C21_NavigationClamped ==
    /\ []((FixedCollection /\ timeline.stored)
              => timeline.timeline_index \in 0 .. timeline.n - 1)
    /\ [][(Clicked("previous") => PreviousClamped)
              /\ (Clicked("next") => NextClamped)]_vars

\* next was clicked in the middle of a fixed collection and moved the index
C21_Witness ==
    /\ FixedCollection
    /\ timeline.last = "next"
    /\ timeline.outcome = "rerun"
    /\ timeline.timeline_index = timeline.n - 1
    /\ timeline.n >= 3

\* C29: the value a pass hands to the slider as its initial position is a
\* position of the collection of that pass, also after a switch to a
\* dataset of n >= 2 records that are fewer than the stored index
C29_InitialPositionValid ==
    (/\ timeline # NoneRec
     /\ timeline.last = "pass"
     /\ timeline.n >= 2)
        => timeline.handed \in 0 .. timeline.n - 1

(***************************************************************************)
(* The preview interface: show_image_preview_interface and                  *)
(* show_optimized_image_preview_interface.  A pass organizes the files,     *)
(* shows the statistics, one of the three views and, when the session       *)
(* state asks for it, the detail panel.  st.session_state is a record of    *)
(* the keys present and their values.  Records are numbered from 0 as in    *)
(* the code.                                                                *)
(***************************************************************************)

\* the files of the datasets previewed
PreviewFiles ==
    {f \in Files :
        f # Missing =>
            /\ f.mtime = "1704038400"
            /\ f.filename \in {"a.png", "20240102.jpg"}
            /\ f.image # NoneRec => f.image.exif # "0000:00:00 00:00:00"}

\* list.count
Count(seq, x) == Cardinality({i \in DOMAIN seq : seq[i] = x})

\* max(set(seq), key=seq.count) for a list that is not empty: the first
\* value of highest count in the iteration order of the set, which for
\* strings follows their hashes and differs from process to process; any
\* value of highest count can be the one
MostFrequent(seq) ==
    {x \in {seq[i] : i \in DOMAIN seq} :
        \A j \in DOMAIN seq : Count(seq, seq[j]) <= Count(seq, x)}

\* [img['time_source'] for img in image_data]
time_sources(image_data) == [i \in DOMAIN image_data |-> image_data[i].time_source]

\* the formats list: img['metadata']['format'] if img['metadata'] else
\* 'Unknown' in the full interface, img['format'] in the optimized one
formats(variant, image_data) ==
    [i \in DOMAIN image_data |->
        IF variant = "optimized" THEN image_data[i].format
        ELSE IF image_data[i].metadata = NoneRec THEN "Unknown"
        ELSE image_data[i].metadata.format]

\* the session-state keys of the detail panel that the interface
\* initializes, reads and clears
interface_keys(variant) ==
    IF variant = "optimized"
    THEN [show |-> "show_detail_opt", index |-> "selected_image_index_opt"]
    ELSE [show |-> "show_detail", index |-> "selected_image_index"]

\* the session-state keys the view button of the grid writes: the same
\* two names in both grids
grid_keys(variant) == [show |-> "show_detail", index |-> "selected_image_index"]

\* an empty st.session_state
NoKeys == << >>

\* if key not in st.session_state: st.session_state[key] = value
SetDefault(state, key, value) ==
    IF key \in DOMAIN state THEN state ELSE (key :> value) @@ state

\* st.session_state[key] = value
SetKey(state, key, value) ==
    [k \in DOMAIN state \cup {key} |-> IF k = key THEN value ELSE state[k]]

\* del st.session_state[key]
DelSessionKey(state, key) == [k \in DOMAIN state \ {key} |-> state[k]]

\* the record the detail panel shows, -1 when it is not shown:
\* st.session_state.get(show, False) and index in st.session_state and
\* 0 <= selected_index < len(image_data); booleans are stored as 0 and 1
DetailPanel(state, keys, n) ==
    IF /\ keys.show \in DOMAIN state
       /\ state[keys.show] = 1
       /\ keys.index \in DOMAIN state
       /\ state[keys.index] \in 0 .. n - 1
    THEN state[keys.index]
    ELSE -1

\* the interface before its first pass
InterfaceStart ==
    [variant |-> "none", outcome |-> "none", mode |-> "none",
     state |-> NoKeys, image_data |-> << >>, main_source |-> None,
     main_format |-> None, time_span |-> FALSE, panel |-> -1,
     click |-> [variant |-> "none", index |-> -1],
     asked |-> [variant |-> "none", index |-> -1]]

\* if not image_files: st.warning(...); return
InterfaceWarned(variant) ==
    [interface EXCEPT !.variant = variant, !.outcome = "warning",
                      !.asked = interface.click,
                      !.click = InterfaceStart.click]

\* max() raised ValueError on the empty set: the pass ends after the count
InterfaceRaised(variant, state) ==
    [interface EXCEPT !.variant = variant, !.outcome = "raised",
                      !.state = state, !.image_data = << >>,
                      !.asked = interface.click,
                      !.click = InterfaceStart.click]

\* the pass ran to its end
InterfaceShown(variant, mode, state, image_data, main_source, main_format) ==
    [variant |-> variant, outcome |-> "done", mode |-> mode, state |-> state,
     image_data |-> image_data, main_source |-> main_source,
     main_format |-> main_format, time_span |-> image_data # << >>,
     panel |-> DetailPanel(state, interface_keys(variant), Len(image_data)),
     click |-> InterfaceStart.click, asked |-> interface.click]

\* the statistics and the rest of the pass
InterfaceStatistics(variant, mode, state, image_data) ==
    IF image_data = << >>
    THEN IF variant = "optimized"
         THEN interface'
                  = InterfaceShown(variant, mode, state, image_data,
                                   "unknown", "unknown")
         ELSE interface' = InterfaceRaised(variant, state)
    ELSE \E main_source \in MostFrequent(time_sources(image_data)) :
             \E main_format \in MostFrequent(formats(variant, image_data)) :
                 interface' = InterfaceShown(variant, mode, state, image_data,
                                             main_source, main_format)

\* the session state after the two keys of the interface got their defaults
InterfaceDefaults(state, keys) ==
    SetDefault(SetDefault(state, keys.show, 0), keys.index, 0)

\* a pass of the interface on image_files, the radio at mode
InterfacePass(variant, image_data) ==
    /\ interface # NoneRec
    /\ IF image_files = << >>
       THEN interface' = InterfaceWarned(variant)
       ELSE \E mode \in {"timeline", "grid", "single"} :
                InterfaceStatistics(
                    variant, mode,
                    InterfaceDefaults(interface.state, interface_keys(variant)),
                    image_data)
    /\ UNCHANGED <<cacheVars, thr, organizeVars, extraVars, timeline, auth, online>>

\* show_image_preview_interface(image_files)
ShowImagePreviewInterface ==
    InterfacePass("full", organize_images_by_timestamp(image_files, fs).data)

\* show_optimized_image_preview_interface(image_files)
ShowOptimizedImagePreviewInterface ==
    InterfacePass("optimized", organize_images_fast(image_files, fs).data)

\* the session state after the view button of record index was clicked
ViewClicked(state, keys, index) ==
    SetKey(SetKey(state, keys.index, index), keys.show, 1)

\* a click on the view button of a record of the grid: the button is there
\* when the image opens; st.rerun() ends the pass
ClickView ==
    /\ interface # NoneRec
    /\ interface.outcome = "done"
    /\ interface.mode = "grid"
    /\ \E index \in 0 .. Len(interface.image_data) - 1 :
           /\ fs[interface.image_data[index + 1].path].image # NoneRec
           /\ interface'
                  = [interface EXCEPT
                         !.outcome = "rerun",
                         !.state = ViewClicked(interface.state,
                                               grid_keys(interface.variant),
                                               index),
                         !.click = [variant |-> interface.variant,
                                    index |-> index]]
    /\ UNCHANGED <<cacheVars, thr, organizeVars, extraVars, timeline, auth, online>>

\* the session state after the close button of the panel was clicked
DetailClosed(state, keys) == DelSessionKey(SetKey(state, keys.show, 0), keys.index)

\* a click on the close button of the detail panel; st.rerun() ends the pass
CloseDetail ==
    /\ interface # NoneRec
    /\ interface.outcome = "done"
    /\ interface.panel >= 0
    /\ interface'
           = [interface EXCEPT
                  !.outcome = "rerun",
                  !.state = DetailClosed(interface.state,
                                         interface_keys(interface.variant)),
                  !.click = [variant |-> "closed", index |-> -1]]
    /\ UNCHANGED <<cacheVars, thr, organizeVars, extraVars, timeline, auth, online>>

InitInterface ==
    /\ CacheIdle
    /\ \E n \in 0 .. MaxInput :
           /\ image_files = [i \in 1 .. n |-> i]
           /\ fs \in [1 .. n -> PreviewFiles]
    /\ organized = NoneRec
    /\ run = NoneRec
    /\ session = NoneRec
    /\ grid = NoneRec
    /\ resolved = NoneRec
    /\ timeline = NoneRec
    /\ auth = NoneRec
    /\ online = NoneRec
    /\ interface = InterfaceStart

NextInterface ==
    \/ ShowImagePreviewInterface
    \/ ShowOptimizedImagePreviewInterface
    \/ ClickView
    \/ CloseDetail

SpecInterface == InitInterface /\ [][NextInterface]_vars

(***************************************************************************)
(* Claims about the interface, checked under SpecInterface.                 *)
(***************************************************************************)

\* a pass ran to its end on a collection that is not empty
StatisticsShown ==
    /\ interface # NoneRec
    /\ interface.outcome = "done"
    /\ interface.image_data # << >>

\* the position of the first record with the time source x
FirstWith(x) ==
    CHOOSE i \in DOMAIN interface.image_data :
        /\ interface.image_data[i].time_source = x
        /\ \A j \in 1 .. i - 1 : interface.image_data[j].time_source # x

\* C22: the main time source shown has the highest count in the collection
\* and, among the sources of highest count, it is the one that occurs first
C22_MainSourceFirstOfMostFrequent ==
    StatisticsShown =>
        /\ \A j \in DOMAIN interface.image_data :
               Count(time_sources(interface.image_data),
                     interface.image_data[j].time_source)
                   <= Count(time_sources(interface.image_data),
                            interface.main_source)
        /\ \A x \in MostFrequent(time_sources(interface.image_data)) :
               FirstWith(interface.main_source) <= FirstWith(x)

\* C27: a pass of show_image_preview_interface on a path list that is not
\* empty does not raise, also when no path exists
C27_FullInterfaceCompletes ==
    (/\ interface # NoneRec
     /\ interface.variant = "full"
     /\ image_files # << >>)
        => interface.outcome # "raised"

\* C28: in the optimized interface, the pass after a click on the view
\* button of record k shows the detail panel for record k
C28_ViewClickOpensPanel ==
    (/\ interface # NoneRec
     /\ interface.variant = "optimized"
     /\ interface.outcome = "done"
     /\ interface.asked.variant = "optimized"
     /\ interface.asked.index >= 0)
        => interface.panel = interface.asked.index

(***************************************************************************)
(* auth.py: the users and user_sessions tables of data.db.  A row's id is   *)
(* its position in the table.  Times are hours on the clock auth.now.  A    *)
(* session token is secrets.token_urlsafe(32): a value no row holds yet,    *)
(* here the number of the row; 0 stands for the empty string.               *)
(***************************************************************************)

SESSION_TIMEOUT_HOURS == 24

\* the hours the clock moves in one step
ClockStep == 12

\* hash_password(password, salt): PBKDF2 is taken to be injective
hash_password(password, salt) == <<password, salt>>

\* a row of users as INSERT INTO users makes it, salt a fresh value
UserRow(username, email, password, salt) ==
    [username |-> username, email |-> email,
     password_hash |-> hash_password(password, salt), salt |-> salt,
     is_active |-> 1, failed_login_attempts |-> 0, locked_until |-> -1]

\* init_auth_database(): the default administrator
AdminRow == UserRow("admin", "admin@platform.com", "admin123", 1)

\* no call has been made
NoAuthCall == [op |-> "none", arg |-> 0, ret |-> 0]

\* data.db with the given users and no session
AuthStart(users) ==
    [users |-> users, sessions |-> << >>, now |-> 0, last |-> NoAuthCall,
     invalidated |-> {}, wrong |-> [u \in DOMAIN users |-> 0],
     fifth_at |-> [u \in DOMAIN users |-> -1], before |-> << >>]

\* a faulty variant of deactivate_sessions: the old sessions stay active
deactivate_sessions_keep(sessions, user_id) == sessions

\* UPDATE user_sessions SET is_active = 0 WHERE user_id = ?
deactivate_sessions(sessions, user_id) ==
    [i \in DOMAIN sessions |->
        IF sessions[i].user_id = user_id
        THEN [sessions[i] EXCEPT !.is_active = 0]
        ELSE sessions[i]]

\* INSERT INTO user_sessions (user_id, session_token, created_at, expires_at)
SessionRow(user_id, session_token, current) ==
    [user_id |-> user_id, session_token |-> session_token,
     created_at |-> current, expires_at |-> current + SESSION_TIMEOUT_HOURS,
     is_active |-> 1]

\* create_user_session(user_id)
create_user_session(a, user_id) ==
    [a EXCEPT
        !.sessions = Append(deactivate_sessions(a.sessions, user_id),
                            SessionRow(user_id, Len(a.sessions) + 1, a.now)),
        !.last = [op |-> "create_user_session", arg |-> user_id,
                  ret |-> Len(a.sessions) + 1],
        !.before = a.sessions]

\* UPDATE user_sessions SET is_active = 0 WHERE session_token = ?
invalidate_rows(sessions, session_token) ==
    [i \in DOMAIN sessions |->
        IF sessions[i].session_token = session_token
        THEN [sessions[i] EXCEPT !.is_active = 0]
        ELSE sessions[i]]

\* invalidate_session(session_token)
invalidate_session(a, session_token) ==
    [a EXCEPT !.sessions = invalidate_rows(a.sessions, session_token),
              !.invalidated = a.invalidated \cup {session_token},
              !.last = [op |-> "invalidate_session", arg |-> session_token,
                        ret |-> 0],
              !.before = a.sessions]

\* the rows of the SELECT of verify_session: the active sessions with the
\* token, joined to an active user
SelectSession(a, session_token) ==
    {i \in DOMAIN a.sessions :
        /\ a.sessions[i].session_token = session_token
        /\ a.sessions[i].is_active = 1
        /\ a.sessions[i].user_id \in DOMAIN a.users
        /\ a.users[a.sessions[i].user_id].is_active = 1}

\* a faulty variant of session_expired: a session ends at its last hour
session_expired_early(current, expires_at) == current >= expires_at

\* datetime.now() > datetime.fromisoformat(expires_at)
session_expired(current, expires_at) == current > expires_at

\* verify_session returned ret (a user id, 0 for None); before is the
\* session table the call found
Verified(a, before, session_token, ret) ==
    [a EXCEPT !.last = [op |-> "verify_session", arg |-> session_token,
                        ret |-> ret],
              !.before = before]

\* the row was found: an expired session is invalidated
VerifyRow(a, session_token, row) ==
    IF session_expired(a.now, row.expires_at)
    THEN Verified(invalidate_session(a, session_token), a.sessions,
                  session_token, 0)
    ELSE Verified(a, a.sessions, session_token, row.user_id)

\* verify_session(session_token)
verify_session(a, session_token) ==
    IF session_token = 0 \/ SelectSession(a, session_token) = {}
    THEN Verified(a, a.sessions, session_token, 0)
    ELSE VerifyRow(a, session_token,
                   a.sessions[CHOOSE i \in SelectSession(a, session_token) : TRUE])

\* the tokens a caller can present: the empty one, the issued ones and one
\* that no row holds or will hold
Tokens(a) == 0 .. Len(a.sessions) \cup {MaxSessions + 1}

AuthUnchanged ==
    UNCHANGED <<cacheVars, thr, organizeVars, extraVars, timeline, interface, online>>

CreateUserSession ==
    /\ auth # NoneRec
    /\ Len(auth.sessions) < MaxSessions
    /\ \E user_id \in DOMAIN auth.users :
           auth' = create_user_session(auth, user_id)
    /\ AuthUnchanged

VerifySession ==
    /\ auth # NoneRec
    /\ \E session_token \in Tokens(auth) :
           auth' = verify_session(auth, session_token)
    /\ AuthUnchanged

\* invalidate_session(session_token), as logout_user calls it
InvalidateSession ==
    /\ auth # NoneRec
    /\ \E session_token \in Tokens(auth) :
           auth' = invalidate_session(auth, session_token)
    /\ AuthUnchanged

\* time passes between two calls
AdvanceClock ==
    /\ auth # NoneRec
    /\ auth.now + ClockStep <= ClockStep * MaxAdvances
    /\ auth' = [auth EXCEPT !.now = auth.now + ClockStep]
    /\ AuthUnchanged

AuthIdleOthers ==
    /\ CacheIdle
    /\ fs = << >>
    /\ image_files = << >>
    /\ organized = NoneRec
    /\ run = NoneRec
    /\ session = NoneRec
    /\ grid = NoneRec
    /\ resolved = NoneRec
    /\ timeline = NoneRec
    /\ interface = NoneRec
    /\ online = NoneRec

\* the administrator and one registered user, no session
InitSession ==
    /\ AuthIdleOthers
    /\ auth = AuthStart(<<AdminRow, UserRow("bob", "bob@x.io", "bob123", 2)>>)

NextSession ==
    CreateUserSession \/ VerifySession \/ InvalidateSession \/ AdvanceClock

SpecSession == InitSession /\ [][NextSession]_vars

(***************************************************************************)
(* Claims about sessions, checked under SpecSession.                        *)
(***************************************************************************)

\* the last call was verify_session
VerifyReturned == auth # NoneRec /\ auth.last.op = "verify_session"

\* the row that was issued the token, 0 when no row was
IssuedAs(session_token) ==
    IF session_token \in DOMAIN auth.before THEN session_token ELSE 0

\* the session of row i is the latest of its user
Latest(i) ==
    \A j \in DOMAIN auth.before :
        auth.before[j].user_id = auth.before[i].user_id => j <= i

\* the token of row i was invalidated before the last call
InvalidatedBefore(i) ==
    /\ i \in auth.invalidated
    /\ auth.before[i].is_active = 0

\* C23: verify_session accepts an issued token and returns its user as
\* long as the session is at most 24 hours old, was not invalidated and is
\* the latest of its user; a token no row holds, and the empty token, is
\* rejected and the session table stays as it was
C23_IssuedTokenAccepted ==
    VerifyReturned =>
        IF IssuedAs(auth.last.arg) = 0
        THEN auth.last.ret = 0 /\ auth.sessions = auth.before
        ELSE (/\ auth.now <= auth.before[auth.last.arg].created_at + 24
              /\ ~InvalidatedBefore(auth.last.arg)
              /\ Latest(auth.last.arg))
                 => auth.last.ret = auth.before[auth.last.arg].user_id

\* a token was verified in the last hour of its session
C23_Witness ==
    /\ VerifyReturned
    /\ auth.last.ret = 2
    /\ auth.last.arg \in DOMAIN auth.sessions
    /\ auth.now = auth.sessions[auth.last.arg].created_at + 24
    /\ Len(auth.sessions) >= 2

\* C26: no user has two active sessions, and verify_session accepts
\* neither a token issued before its user's latest session nor a token
\* that was invalidated, by a logout or by its expiry
C26_OneActiveSession ==
    auth # NoneRec =>
        /\ \A i, j \in DOMAIN auth.sessions :
               (/\ auth.sessions[i].user_id = auth.sessions[j].user_id
                /\ auth.sessions[i].is_active = 1
                /\ auth.sessions[j].is_active = 1) => i = j
        /\ (VerifyReturned /\ auth.last.ret # 0) =>
               /\ auth.last.arg \in DOMAIN auth.before
               /\ auth.last.arg \notin auth.invalidated
               /\ Latest(auth.last.arg)

\* a token of a user who has a later session was presented and rejected
C26_Witness ==
    /\ VerifyReturned
    /\ auth.last.ret = 0
    /\ auth.last.arg \in DOMAIN auth.before
    /\ ~Latest(auth.last.arg)
    /\ auth.last.arg \notin auth.invalidated

(***************************************************************************)
(* register_user.  The INSERT is reached after both SELECTs found no row,   *)
(* so with one caller at a time the UNIQUE constraints of the table never   *)
(* reject it.                                                               *)
(***************************************************************************)

MIN_PASSWORD_LENGTH == 6

Digits == "0123456789"

\* every character of str is one of chars
AllIn(str, chars) ==
    \A i \in 1 .. Len(str) : \E j \in 1 .. Len(chars) : Char(str, i) = Char(chars, j)

\* some character of str is one of chars
SomeIn(str, chars) ==
    \E i \in 1 .. Len(str) : \E j \in 1 .. Len(chars) : Char(str, i) = Char(chars, j)

\* validate_username: 3 to 20 of [a-zA-Z0-9_]
validate_username(username) ==
    /\ Len(username) >= 3
    /\ Len(username) <= 20
    /\ AllIn(username, Lower \o Upper \o Digits \o "_")

\* validate_email: ^[a-zA-Z0-9._%+-]+@[a-zA-Z0-9.-]+\.[a-zA-Z]{2,}$
validate_email(email) ==
    \E at \in 2 .. Len(email) : \E dot \in at + 2 .. Len(email) - 2 :
        /\ Char(email, at) = "@"
        /\ Char(email, dot) = "."
        /\ AllIn(SubSeq(email, 1, at - 1), Lower \o Upper \o Digits \o "._%+-")
        /\ AllIn(SubSeq(email, at + 1, dot - 1), Lower \o Upper \o Digits \o ".-")
        /\ AllIn(SubSeq(email, dot + 1, Len(email)), Lower \o Upper)

\* validate_password: at least 6 characters, a letter and a digit
validate_password(password) ==
    /\ Len(password) >= MIN_PASSWORD_LENGTH
    /\ SomeIn(password, Lower \o Upper)
    /\ SomeIn(password, Digits)

\* SELECT id FROM users WHERE username = ?
username_taken(users, username) ==
    \E i \in DOMAIN users : users[i].username = username

\* a faulty variant of email_taken: the email is not looked up
email_taken_never(users, email) == FALSE

\* SELECT id FROM users WHERE email = ?
email_taken(users, email) == \E i \in DOMAIN users : users[i].email = email

\* register_user returned (success, message)
Registered(a, users, username, email, success, message) ==
    [a EXCEPT !.users = users,
              !.wrong = [u \in DOMAIN users |-> 0],
              !.fifth_at = [u \in DOMAIN users |-> -1],
              !.before = a.users,
              !.last = [op |-> "register_user", username |-> username,
                        email |-> email, ret |-> success,
                        message |-> message]]

\* register_user(username, email, password)
register_user(a, username, email, password) ==
    IF ~validate_username(username)
    THEN Registered(a, a.users, username, email, FALSE, "username format")
    ELSE IF ~validate_email(email)
    THEN Registered(a, a.users, username, email, FALSE, "email format")
    ELSE IF ~validate_password(password)
    THEN Registered(a, a.users, username, email, FALSE, "password")
    ELSE IF username_taken(a.users, username)
    THEN Registered(a, a.users, username, email, FALSE, "username exists")
    ELSE IF email_taken(a.users, email)
    THEN Registered(a, a.users, username, email, FALSE, "email registered")
    ELSE Registered(a,
                    Append(a.users,
                           UserRow(username, email, password, Len(a.users) + 1)),
                    username, email, TRUE, "registered")

\* the registrations tried
Usernames == {"admin", "bob", "amy", "ab"}

Emails == {"admin@platform.com", "bob@x.io", "amy@x.io", "bob@x"}

Passwords == {"bob123", "bob"}

RegisterUser ==
    /\ auth # NoneRec
    /\ Len(auth.users) < MaxUsers
    /\ \E username \in Usernames, email \in Emails, password \in Passwords :
           auth' = register_user(auth, username, email, password)
    /\ AuthUnchanged

\* init_auth_database(): the administrator only
InitRegister ==
    /\ AuthIdleOthers
    /\ auth = AuthStart(<<AdminRow>>)

NextRegister == RegisterUser

SpecRegister == InitRegister /\ [][NextRegister]_vars

\* C24: register_user rejects a username or an email that a row of users
\* holds and leaves the table as it was, so no two rows share a username
\* and no two rows share an email
C24_UniqueUsers ==
    auth # NoneRec =>
        /\ \A i, j \in DOMAIN auth.users :
               (\/ auth.users[i].username = auth.users[j].username
                \/ auth.users[i].email = auth.users[j].email) => i = j
        /\ (/\ auth.last.op = "register_user"
            /\ \E i \in DOMAIN auth.before :
                   \/ auth.before[i].username = auth.last.username
                   \/ auth.before[i].email = auth.last.email)
               => auth.last.ret = FALSE /\ auth.users = auth.before

\* a new username was rejected for its email, after a registration
C24_Witness ==
    /\ auth # NoneRec
    /\ auth.last.op = "register_user"
    /\ auth.last.ret = FALSE
    /\ Len(auth.users) = 2
    /\ auth.last.message = "email registered"
    /\ auth.last.email = auth.users[2].email

(***************************************************************************)
(* authenticate_user and the lock of an account.  The observers wrong and   *)
(* fifth_at count, for each user, the wrong-password calls since the last   *)
(* successful login and keep the time of the fifth.                         *)
(***************************************************************************)

MAX_LOGIN_ATTEMPTS == 5

\* timedelta(hours=1) of increment_failed_login
LockHours == 1

\* the row with the username, 0 when there is none
UserId(users, username) ==
    IF \E i \in DOMAIN users : users[i].username = username
    THEN CHOOSE i \in DOMAIN users : users[i].username = username
    ELSE 0

\* clear_user_lock(username)
clear_user_lock(users, id) ==
    [users EXCEPT ![id].failed_login_attempts = 0, ![id].locked_until = -1]

\* the users table after is_user_locked(username) found the user not
\* locked: a lock whose time has passed is cleared
UnlockIfPassed(users, id) ==
    IF users[id].locked_until # -1 THEN clear_user_lock(users, id) ELSE users

\* is_user_locked(username): locked_until is set and datetime.now() < lock_time
is_user_locked(users, id, current) ==
    /\ id # 0
    /\ users[id].locked_until # -1
    /\ current < users[id].locked_until

\* a faulty variant of lock_needed: the lock comes one failure later
lock_needed_late(failed_login_attempts) ==
    failed_login_attempts > MAX_LOGIN_ATTEMPTS

\* result[0] >= MAX_LOGIN_ATTEMPTS
lock_needed(failed_login_attempts) ==
    failed_login_attempts >= MAX_LOGIN_ATTEMPTS

\* the row after the failure was counted
FailureCounted(row, current) ==
    [row EXCEPT !.failed_login_attempts = row.failed_login_attempts + 1,
                !.locked_until =
                    IF lock_needed(row.failed_login_attempts + 1)
                    THEN current + LockHours ELSE row.locked_until]

\* increment_failed_login(username)
increment_failed_login(users, id, current) ==
    [users EXCEPT ![id] = FailureCounted(users[id], current)]

\* authenticate_user returned ret (a user id, 0 for None)
Authenticated(a, users, username, good, ret) ==
    [a EXCEPT !.users = users, !.before = a.users,
              !.last = [op |-> "authenticate_user", username |-> username,
                        good |-> good, ret |-> ret, wrong |-> a.wrong,
                        fifth_at |-> a.fifth_at]]

\* the rest of authenticate_user for an existing user that is not locked
CheckPassword(a, users, id, username, password) ==
    IF hash_password(password, users[id].salt) = users[id].password_hash
    THEN Authenticated(a, clear_user_lock(users, id), username, TRUE, id)
    ELSE Authenticated(a, increment_failed_login(users, id, a.now),
                       username, FALSE, 0)

\* authenticate_user(username, password)
authenticate_user(a, id, username, password) ==
    IF is_user_locked(a.users, id, a.now)
    THEN Authenticated(a, a.users, username,
                       hash_password(password, a.users[id].salt)
                           = a.users[id].password_hash, 0)
    ELSE IF id = 0 \/ a.users[id].is_active # 1
    THEN Authenticated(a, a.users, username, FALSE, 0)
    ELSE CheckPassword(a, UnlockIfPassed(a.users, id), id,
                       username, password)

\* the observers after the call: a success ends the run of failures, a
\* wrong password for a user adds to it (counted up to one past the limit)
Observed(a, b, id) ==
    IF id = 0 THEN b
    ELSE IF b.last.ret # 0
    THEN [b EXCEPT !.wrong[id] = 0, !.fifth_at[id] = -1]
    ELSE IF b.last.good THEN b
    ELSE [b EXCEPT
             !.wrong[id] = min(a.wrong[id] + 1, MAX_LOGIN_ATTEMPTS + 1),
             !.fifth_at[id] = IF a.wrong[id] + 1 = MAX_LOGIN_ATTEMPTS
                              THEN a.now ELSE a.fifth_at[id]]

AuthenticateUser ==
    /\ auth # NoneRec
    /\ \E username \in {"admin", "bob"}, password \in {"admin123", "bob123"} :
           \E id \in {UserId(auth.users, username)} :
               auth' = Observed(auth,
                                authenticate_user(auth, id, username, password),
                                id)
    /\ AuthUnchanged

\* an hour passes between two calls
AdvanceHour ==
    /\ auth # NoneRec
    /\ auth.now < MaxAdvances
    /\ auth' = [auth EXCEPT !.now = auth.now + 1]
    /\ AuthUnchanged

NextLogin == AuthenticateUser \/ AdvanceHour

SpecLogin == InitRegister /\ [][NextLogin]_vars

\* the last call was authenticate_user for the user of row id
LoginReturned(id) ==
    /\ auth # NoneRec
    /\ auth.last.op = "authenticate_user"
    /\ UserId(auth.before, auth.last.username) = id

\* C25: once five wrong-password calls were made for a user with no
\* successful login in between (last.wrong and last.fifth_at are the
\* observers as the call found them), every authenticate_user call for
\* that user made less than an hour after the fifth returns None, also with the
\* correct password, and leaves the failure counter as it was; a
\* successful login resets the counter to zero
C25_LockedAfterFiveFailures ==
    \A id \in {1} :
        LoginReturned(id) =>
            /\ (/\ auth.last.wrong[id] >= 5
                /\ auth.now < auth.last.fifth_at[id] + 1)
                   => /\ auth.last.ret = 0
                      /\ auth.users[id].failed_login_attempts
                             = auth.before[id].failed_login_attempts
            /\ auth.last.ret # 0 => auth.users[id].failed_login_attempts = 0

\* the correct password was refused within the hour after the fifth failure
C25_Witness ==
    /\ LoginReturned(1)
    /\ auth.last.good
    /\ auth.last.ret = 0
    /\ auth.last.wrong[1] >= 5
    /\ auth.now < auth.last.fifth_at[1] + 1

(***************************************************************************)
(* online_users.py: OnlineUserManager's online_users table.  A row is its   *)
(* session_id and its last_seen, in minutes on the clock online.now; the    *)
(* table is a function from the session ids that have a row.  The           *)
(* observers member and seen follow the calls, not the table.               *)
(***************************************************************************)

ONLINE_TIMEOUT_MINUTES == 5

\* the session ids of the callers
SessionIds == {"session_001", "session_002"}

\* __init__: CREATE TABLE IF NOT EXISTS on a new database
OnlineStart ==
    [rows |-> << >>, now |-> 0,
     last |-> [op |-> "none", session_id |-> "", ret |-> 0, at |-> 0],
     member |-> {}, seen |-> [id \in SessionIds |-> 0]]

\* INSERT OR REPLACE INTO online_users ... last_seen = current_time
add_online_user(rows, session_id, current_time) ==
    [id \in DOMAIN rows \cup {session_id} |->
        IF id = session_id THEN current_time ELSE rows[id]]

\* UPDATE online_users SET last_seen = ? WHERE session_id = ?
update_user_activity(rows, session_id, current_time) ==
    [id \in DOMAIN rows |-> IF id = session_id THEN current_time ELSE rows[id]]

\* DELETE FROM online_users WHERE session_id = ?
remove_user(rows, session_id) == [id \in DOMAIN rows \ {session_id} |-> rows[id]]

\* a faulty variant of timed_out: a row seen exactly five minutes ago goes
timed_out_at_limit(last_seen, current_time) ==
    last_seen <= current_time - ONLINE_TIMEOUT_MINUTES

\* last_seen < timeout_str, with timeout_time = now - 5 minutes
timed_out(last_seen, current_time) ==
    last_seen < current_time - ONLINE_TIMEOUT_MINUTES

\* DELETE FROM online_users WHERE last_seen < ?
cleanup_inactive_users(rows, current_time) ==
    [id \in {i \in DOMAIN rows : ~timed_out(rows[i], current_time)} |-> rows[id]]

\* SELECT COUNT(*) FROM online_users WHERE is_active = 1: every row has
\* is_active 1
CountRows(rows) == Cardinality(DOMAIN rows)

\* the call op(session_id), made at the minute online.now, left the table
\* rows and returned ret; the observers are member and seen
OnlineCall(op, session_id, rows, ret, member, seen) ==
    [rows |-> rows, now |-> online.now,
     last |-> [op |-> op, session_id |-> session_id, ret |-> ret,
               at |-> online.now],
     member |-> member, seen |-> seen]

\* the ids the observers hold that were not seen for more than 5 minutes
Stale == {id \in online.member : online.now - online.seen[id] > 5}

OnlineUnchanged ==
    UNCHANGED <<cacheVars, thr, organizeVars, extraVars, timeline, interface, auth>>

AddOnlineUser ==
    /\ online # NoneRec
    /\ \E session_id \in SessionIds :
           online' = OnlineCall("add_online_user", session_id,
                                add_online_user(online.rows, session_id, online.now),
                                0, online.member \cup {session_id},
                                [online.seen EXCEPT ![session_id] = online.now])
    /\ OnlineUnchanged

UpdateUserActivity ==
    /\ online # NoneRec
    /\ \E session_id \in SessionIds :
           online' = OnlineCall("update_user_activity", session_id,
                                update_user_activity(online.rows, session_id,
                                                     online.now),
                                0, online.member,
                                IF session_id \in online.member
                                THEN [online.seen EXCEPT ![session_id] = online.now]
                                ELSE online.seen)
    /\ OnlineUnchanged

RemoveUser ==
    /\ online # NoneRec
    /\ \E session_id \in SessionIds :
           online' = OnlineCall("remove_user", session_id,
                                remove_user(online.rows, session_id), 0,
                                online.member \ {session_id}, online.seen)
    /\ OnlineUnchanged

CleanupInactiveUsers ==
    /\ online # NoneRec
    /\ online' = OnlineCall("cleanup_inactive_users", "",
                            cleanup_inactive_users(online.rows, online.now), 0,
                            online.member \ Stale, online.seen)
    /\ OnlineUnchanged

\* get_online_count(): cleanup_inactive_users(), then the count
GetOnlineCount ==
    /\ online # NoneRec
    /\ \E rows \in {cleanup_inactive_users(online.rows, online.now)} :
           online' = OnlineCall("get_online_count", "", rows, CountRows(rows),
                                online.member \ Stale, online.seen)
    /\ OnlineUnchanged

\* a minute passes between two calls
AdvanceMinute ==
    /\ online # NoneRec
    /\ online.now < MaxMinutes
    /\ online' = [online EXCEPT !.now = online.now + 1]
    /\ OnlineUnchanged

InitOnline ==
    /\ CacheIdle
    /\ fs = << >>
    /\ image_files = << >>
    /\ organized = NoneRec
    /\ run = NoneRec
    /\ session = NoneRec
    /\ grid = NoneRec
    /\ resolved = NoneRec
    /\ timeline = NoneRec
    /\ interface = NoneRec
    /\ auth = NoneRec
    /\ online = OnlineStart

NextOnline ==
    \/ AddOnlineUser
    \/ UpdateUserActivity
    \/ RemoveUser
    \/ CleanupInactiveUsers
    \/ GetOnlineCount
    \/ AdvanceMinute

SpecOnline == InitOnline /\ [][NextOnline]_vars

\* C30: get_online_count returns the number of session ids that were
\* added, were not removed or timed out since, and whose latest add or
\* update (an update counts when the id was in the table) is at most 5
\* minutes old; an id added twice is one id
C30_CountsLiveSessions ==
    (online # NoneRec /\ online.last.op = "get_online_count") =>
        online.last.ret
            = Cardinality({id \in SessionIds :
                              /\ id \in online.member
                              /\ online.last.at - online.seen[id] <= 5})

\* a call that counts an id exactly five minutes after its latest add or
\* update
C30_Witness ==
    /\ online # NoneRec
    /\ online.last.op = "get_online_count"
    /\ online.last.ret = 1
    /\ \E id \in online.member : online.last.at - online.seen[id] = 5

=============================================================================
